---- MODULE Spec2Model ----
(***************************************************************************)
(* Building proximity graph and network analytics of                       *)
(* mobility-network-analysis: utils/network_utils.py,                      *)
(* scripts/2_build_network.py, scripts/3_analyze_network.py and            *)
(* scripts/4_calculate_accessibility.py.                                   *)
(*                                                                         *)
(* Numbers.  Python floats are modelled in fixed point.  A length is an    *)
(* integer number of distance units, UnitsPerMetre units to the metre, so  *)
(* that lengths below one metre exist.  A derived real (a mean, a ratio)   *)
(* is a pair <<num, den>> with den > 0; NaN, +inf and None are pairs with  *)
(* den <= 0.                                                               *)
(***************************************************************************)
EXTENDS Integers, Naturals, Sequences, FiniteSets, TLC

\* buildings_df, footprints: the building table and the footprint map on disk
\* pc: "input" before graph construction, "graph" once a builder has returned
\*     G, "failed" once a builder has raised, "analysed" once a consumer of the
\*     graph has returned (a consumer reads G and the table only, so every
\*     consumer call is a step from a "graph" state)
\* G: the graph; pair_log: per evaluated row pair, the branch build_distance_graph
\*     took and the distance it computed
\* call, args, ret: the last function called, its arguments and what it returned
\* files: the paths that exist on disk
\* locals: run_pipeline's local variables gml_files, metrics_csv, paths_json
\*     and accessibility_csv
\* invoked: the stages run_pipeline has called so far, in order
VARIABLES buildings_df, footprints, pc, G, pair_log, call, args, ret,
          files, locals, invoked

vars == <<buildings_df, footprints, pc, G, pair_log, call, args, ret,
          files, locals, invoked>>

\* the functions called on their own: no run of the pipeline, nothing on disk
\* that the model looks at
NoPipeline ==
    /\ files = {}
    /\ locals = <<>>
    /\ invoked = <<>>

-----------------------------------------------------------------------------
(* Bounds of the model *)

\* largest number of rows of the building table
MaxN == 3
\* distance units in one metre (resolution of the fixed point)
UnitsPerMetre == 4
\* distance units covered by one coordinate step along a meridian
StepUnits == 2

\* centroid coordinates (lon, lat) in coordinate steps: three collinear sites
\* and one off the line
Sites == {<<0, 0>>, <<1, 0>>, <<2, 0>>, <<0, 1>>}
\* distance thresholds T > 0, in distance units
Thresholds == {2, 4}
\* footprint areas
Areas == {1}

-----------------------------------------------------------------------------
(* Arithmetic *)

Abs(x) == IF x < 0 THEN -x ELSE x

Max(a, b) == IF a >= b THEN a ELSE b

Min(a, b) == IF a <= b THEN a ELSE b

\* the least k of lo..hi with k*k >= n, by bisection
RECURSIVE LeastSquareAtLeast(_, _, _)
LeastSquareAtLeast(n, lo, hi) ==
    IF lo >= hi THEN lo
    ELSE LET mid == (lo + hi) \div 2
         IN  IF mid * mid >= n THEN LeastSquareAtLeast(n, lo, mid)
             ELSE LeastSquareAtLeast(n, mid + 1, hi)

\* the least k with k*k >= n: sqrt rounded up to the fixed-point resolution
CeilSqrt(n) == LeastSquareAtLeast(n, 0, Min(n, 46340))

RECURSIVE SumSeq(_)
SumSeq(s) == IF s = <<>> THEN 0 ELSE Head(s) + SumSeq(Tail(s))

RECURSIVE SetToSeq(_)
SetToSeq(S) == IF S = {} THEN <<>>
               ELSE LET x == CHOOSE y \in S : TRUE IN <<x>> \o SetToSeq(S \ {x})

\* sum of f[x] over x in S
RECURSIVE SumOver(_, _)
SumOver(f, S) == IF S = {} THEN 0
                 ELSE LET x == CHOOSE y \in S : TRUE IN f[x] + SumOver(f, S \ {x})

-----------------------------------------------------------------------------
(* Distance engine *)

\* metres in 0.001 degree of arc, to the metre
MetresPerMilliDegree == 111

\* coordinate steps in 0.001 degree
MilliDegree == (MetresPerMilliDegree * UnitsPerMetre) \div StepUnits

\* a latitude of 90 degrees, in coordinate steps
MaxLatitude == 90 * 1000 * MilliDegree

\* geopy turns both coordinate pairs into points before it measures, and
\* raises ValueError for a latitude outside [-90, 90] degrees
GeodesicRaises(lat1, lon1, lat2, lon2) ==
    \/ Abs(lat1) > MaxLatitude
    \/ Abs(lat2) > MaxLatitude

\* geopy's geodesic(...).meters on a neighbourhood small enough to be flat
geodesic(lat1, lon1, lat2, lon2) ==
    CeilSqrt(StepUnits * StepUnits *
             ((lat2 - lat1) * (lat2 - lat1) + (lon2 - lon1) * (lon2 - lon1)))

\* cos of a latitude in thousandths, read off a table that falls linearly
\* from 1000 at the equator to 0 at 90 degrees and below 0 beyond
CosMilli(lat) == (MaxLatitude - Abs(lat)) \div (MaxLatitude \div 1000)

\* a distance that is never less than one unit
simple_haversine_at_least_one_unit(lat1, lon1, lat2, lon2) ==
    LET delta_phi == lat2 - lat1
        delta_lambda == lon2 - lon1
        a == 1000 * 1000 * delta_phi * delta_phi
             + CosMilli(lat1) * CosMilli(lat2) * delta_lambda * delta_lambda
    IN  Max(1, CeilSqrt((StepUnits * StepUnits * a) \div (1000 * 1000)))

\* _simple_haversine(lat1, lon1, lat2, lon2) on the sphere of radius R, for
\* points close enough for sin x = x: R * sqrt(dphi^2 + cos(phi1) * cos(phi2)
\* * dlambda^2), one coordinate step of arc being StepUnits units long
simple_haversine(lat1, lon1, lat2, lon2) ==
    LET delta_phi == lat2 - lat1
        delta_lambda == lon2 - lon1
        a == 1000 * 1000 * delta_phi * delta_phi
             + CosMilli(lat1) * CosMilli(lat2) * delta_lambda * delta_lambda
    IN  CeilSqrt((StepUnits * StepUnits * a) \div (1000 * 1000))

\* a handler that answers 0 when the geodesic routine fails
haversine_distance_zero_on_failure(point1, point2) ==
    LET lat1 == point1[2]
        lon1 == point1[1]
        lat2 == point2[2]
        lon2 == point2[1]
    IN  IF GeodesicRaises(lat1, lon1, lat2, lon2) THEN 0
        ELSE geodesic(lat1, lon1, lat2, lon2)

\* haversine_distance(point1, point2): points are <<lon, lat>>; the
\* geodesic distance, or the spherical one when geodesic raises
haversine_distance(point1, point2) ==
    LET lat1 == point1[2]
        lon1 == point1[1]
        lat2 == point2[2]
        lon2 == point2[1]
    IN  IF GeodesicRaises(lat1, lon1, lat2, lon2)
        THEN simple_haversine(lat1, lon1, lat2, lon2)
        ELSE geodesic(lat1, lon1, lat2, lon2)

\* euclidean_distance(point1, point2): planar distance in coordinate units
euclidean_distance(point1, point2) ==
    CeilSqrt(UnitsPerMetre * UnitsPerMetre *
             ((point2[1] - point1[1]) * (point2[1] - point1[1])
              + (point2[2] - point1[2]) * (point2[2] - point1[2])))

\* edge_to_edge_distance(polygon1, polygon2): shapely's polygon distance, 0
\* when the polygons touch or overlap; polygons are axis-parallel boxes
edge_to_edge_distance(polygon1, polygon2) ==
    LET gx == Max(0, Max(polygon1.minx, polygon2.minx) - Min(polygon1.maxx, polygon2.maxx))
        gy == Max(0, Max(polygon1.miny, polygon2.miny) - Min(polygon1.maxy, polygon2.maxy))
    IN  CeilSqrt(UnitsPerMetre * UnitsPerMetre * (gx * gx + gy * gy))

-----------------------------------------------------------------------------
(* Building table and footprint map *)

Row(id, site, area) ==
    [building_id |-> id, centroid_lon |-> site[1], centroid_lat |-> site[2],
     area_m2 |-> area]

Centroid(row) == <<row.centroid_lon, row.centroid_lat>>

IdsOf(df) == {df[i].building_id : i \in 1..Len(df)}

\* buildings_df['building_id'].tolist()
IdList(df) == [i \in 1..Len(df) |-> df[i].building_id]

MaxId(df) == IF df = <<>> THEN 0
             ELSE CHOOSE m \in IdsOf(df) : \A k \in IdsOf(df) : k <= m

\* Building ids are opaque keys: a table is drawn up to renaming of its ids,
\* row i carrying an id already used or the next unused one.
RECURSIVE TablesOfLen(_)
TablesOfLen(n) ==
    IF n = 0 THEN {<<>>}
    ELSE UNION {{Append(t, Row(id, s, a)) :
                    id \in 1..(MaxId(t) + 1), s \in Sites, a \in Areas} :
                t \in TablesOfLen(n - 1)}

Tables == UNION {TablesOfLen(n) : n \in 0..MaxN}

\* the first row with this id:
\* buildings_df[buildings_df['building_id'] == building_id].iloc[0]
RowOfId(df, id) ==
    df[CHOOSE i \in 1..Len(df) :
          /\ df[i].building_id = id
          /\ \A k \in 1..(i - 1) : df[k].building_id # id]

\* the last row with this id (a dict comprehension keeps the last value)
LastRowOfId(df, id) ==
    df[CHOOSE i \in 1..Len(df) :
          /\ df[i].building_id = id
          /\ \A k \in (i + 1)..Len(df) : df[k].building_id # id]

\* the ground surface of a building: the unit box north-east of its site
Footprint(row) ==
    [minx |-> row.centroid_lon, miny |-> row.centroid_lat,
     maxx |-> row.centroid_lon + 1, maxy |-> row.centroid_lat + 1]

\* CityGMLParser.get_footprints / combine_footprints: building_id -> polygon
\* for the buildings in `have`; a building without ground surface has no entry
get_footprints(df, have) == [id \in have |-> Footprint(LastRowOfId(df, id))]

\* footprints.get(building_id): None is modelled by the empty record set
HasFootprint(fp, id) == id \in DOMAIN fp

-----------------------------------------------------------------------------
(* nx.Graph: nodes in insertion order, node attributes, and edges keyed by  *)
(* the set of their end points ({u} is a self-loop)                         *)

EmptyGraph == [nodes |-> <<>>, attrs |-> <<>>, edges |-> <<>>]

NodeSet(g) == {g.nodes[i] : i \in 1..Len(g.nodes)}

\* G.add_node(n, **attrs): a known node keeps its place, its attributes are
\* overwritten
add_node(g, n, a) ==
    [nodes |-> IF n \in NodeSet(g) THEN g.nodes ELSE Append(g.nodes, n),
     attrs |-> [m \in NodeSet(g) \cup {n} |-> IF m = n THEN a ELSE g.attrs[m]],
     edges |-> g.edges]

has_edge(g, u, v) == {u, v} \in DOMAIN g.edges

\* G.add_edge(u, v, weight=d, distance_m=d): unknown end points become nodes,
\* a known edge has its attributes overwritten
add_edge(g, u, v, d) ==
    LET g1 == IF u \in NodeSet(g) THEN g ELSE add_node(g, u, <<>>)
        g2 == IF v \in NodeSet(g1) THEN g1 ELSE add_node(g1, v, <<>>)
    IN  [nodes |-> g2.nodes,
         attrs |-> g2.attrs,
         edges |-> [e \in DOMAIN g.edges \cup {{u, v}} |->
                      IF e = {u, v} THEN [weight |-> d, distance_m |-> d]
                      ELSE g.edges[e]]]

number_of_nodes(g) == Len(g.nodes)

number_of_edges(g) == Cardinality(DOMAIN g.edges)

\* G.degree(n): a self-loop counts twice
degree(g, n) ==
    Cardinality({e \in DOMAIN g.edges : n \in e /\ Cardinality(e) = 2})
    + (IF {n} \in DOMAIN g.edges THEN 2 ELSE 0)

-----------------------------------------------------------------------------
(* build_distance_graph *)

\* the node loop: one G.add_node(building_id, **row.to_dict()) per row
RECURSIVE AddNodes(_, _, _)
AddNodes(g, df, i) ==
    IF i > Len(df) THEN g
    ELSE AddNodes(add_node(g, df[i].building_id, df[i]), df, i + 1)

\* the row pairs in the order of the two nested loops: i < j
RECURSIVE PairsFrom(_, _, _)
PairsFrom(i, j, n) ==
    IF i > n THEN <<>>
    ELSE IF j > n THEN PairsFrom(i + 1, i + 2, n)
    ELSE <<(<<i, j>>)>> \o PairsFrom(i, j + 1, n)

Pairs(n) == PairsFrom(1, 2, n)

\* a branch selection that takes the polygons whenever both are known, the
\* flag ignored
PairBranchIgnoringFlag(df, fp, method, use_edge, i, j) ==
    IF HasFootprint(fp, IdList(df)[i]) /\ HasFootprint(fp, IdList(df)[j])
    THEN "edge_to_edge"
    ELSE IF method = "haversine" THEN "haversine"
    ELSE "euclidean"

\* which distance the loop body takes for the rows i and j
PairBranch(df, fp, method, use_edge, i, j) ==
    LET building_id1 == IdList(df)[i]
        building_id2 == IdList(df)[j]
        polygon1 == HasFootprint(fp, building_id1)
        polygon2 == HasFootprint(fp, building_id2)
    IN  IF use_edge /\ polygon1 /\ polygon2 THEN "edge_to_edge"
        ELSE IF method = "haversine" THEN "haversine"
        ELSE "euclidean"

\* the distance the loop body computes for the rows i and j
PairDistance(df, fp, method, use_edge, i, j) ==
    LET building_id1 == IdList(df)[i]
        building_id2 == IdList(df)[j]
        row1 == RowOfId(df, building_id1)
        row2 == RowOfId(df, building_id2)
        point1 == Centroid(row1)
        point2 == Centroid(row2)
        branch == PairBranch(df, fp, method, use_edge, i, j)
    IN  IF branch = "edge_to_edge"
        THEN edge_to_edge_distance(fp[building_id1], fp[building_id2])
        ELSE IF branch = "haversine" THEN haversine_distance(point1, point2)
        ELSE euclidean_distance(point1, point2)

\* a threshold test that leaves out the pairs at exactly T
WithinThresholdStrict(distance, T) == distance < T

\* the test that guards G.add_edge
WithinThreshold(distance, T) == distance <= T

\* what the loop body computes for every row pair: the branch taken and the
\* distance
PairLog(df, fp, method, use_edge) ==
    LET pairs == Pairs(Len(df))
    IN  [p \in {pairs[k] : k \in 1..Len(pairs)} |->
            [branch |-> PairBranch(df, fp, method, use_edge, p[1], p[2]),
             distance |-> PairDistance(df, fp, method, use_edge, p[1], p[2])]]

\* the pair loop over the remaining pairs, log[p].distance being the distance
\* computed for the pair p
RECURSIVE AddEdges(_, _, _, _, _)
AddEdges(g, ids, log, pairs, T) ==
    IF pairs = <<>> THEN g
    ELSE LET p == Head(pairs)
             distance == log[p].distance
             g1 == IF WithinThreshold(distance, T)
                   THEN add_edge(g, ids[p[1]], ids[p[2]], distance)
                   ELSE g
         IN  AddEdges(g1, ids, log, Tail(pairs), T)

\* the closing log line divides by len(G.nodes()): ZeroDivisionError on a
\* graph without nodes
DistanceGraphRaises(g) == number_of_nodes(g) = 0

build_distance_graph(df, fp, T, method, use_edge) ==
    AddEdges(AddNodes(EmptyGraph, df, 1), IdList(df),
             PairLog(df, fp, method, use_edge), Pairs(Len(df)), T)

NoLog == <<>>

\* a call build_distance_graph(buildings_df, footprints, T, method, use_edge)
\* with the threshold, the metric and the flag drawn from the given sets
BuildDistanceAt(thresholds, methods, flags) ==
    /\ pc = "input"
    /\ \E T \in thresholds, method \in methods, use_edge \in flags :
          LET g == build_distance_graph(buildings_df, footprints, T, method, use_edge)
          IN  /\ call' = "build_distance_graph"
              /\ args' = [distance_threshold |-> T, distance_method |-> method,
                          use_edge_distance |-> use_edge]
              /\ pair_log' = PairLog(buildings_df, footprints, method, use_edge)
              /\ IF DistanceGraphRaises(g)
                 THEN /\ pc' = "failed"
                      /\ G' = EmptyGraph
                      /\ ret' = [raised |-> TRUE]
                 ELSE /\ pc' = "graph"
                      /\ G' = g
                      /\ ret' = [raised |-> FALSE]
    /\ UNCHANGED <<files, locals, invoked, buildings_df, footprints>>

\* the same with a threshold of Thresholds
BuildDistanceWith(methods, flags) == BuildDistanceAt(Thresholds, methods, flags)

\* build_distance_graph called with any metric and either flag
BuildDistance == BuildDistanceWith({"haversine", "euclidean"}, BOOLEAN)

\* build_distance_graph as build_network calls it for run_pipeline:
\* distance_method='haversine', use_edge_distance=False
BuildDistanceForPipeline == BuildDistanceWith({"haversine"}, {FALSE})

-----------------------------------------------------------------------------
(* build_delaunay_graph *)

\* coords: for every row the centroid of the first row with the same id
Coords(df) == [i \in 1..Len(df) |-> Centroid(RowOfId(df, IdList(df)[i]))]

\* twice the signed area of the triangle p, q, r
Orient(p, q, r) ==
    (q[1] - p[1]) * (r[2] - p[2]) - (q[2] - p[2]) * (r[1] - p[1])

Sq(p, d) == (p[1] - d[1]) * (p[1] - d[1]) + (p[2] - d[2]) * (p[2] - d[2])

\* d lies strictly inside the circle through a, b and c
InCircle(a, b, c, d) ==
    LET ax == a[1] - d[1]
        ay == a[2] - d[2]
        bx == b[1] - d[1]
        by == b[2] - d[2]
        cx == c[1] - d[1]
        cy == c[2] - d[2]
        det == ax * (by * Sq(c, d) - cy * Sq(b, d))
               - ay * (bx * Sq(c, d) - cx * Sq(b, d))
               + Sq(a, d) * (bx * cy - by * cx)
    IN  det * Orient(a, b, c) > 0

\* the three corners of a simplex (a set of three row indices) in some order
Corners(t) == SetToSeq(t)

\* scipy.spatial.Delaunay raises (QhullError, or ValueError on an empty
\* array) unless three of the points span a triangle
DelaunayRaises(coords) ==
    ~ \E i, j, k \in 1..Len(coords) : Orient(coords[i], coords[j], coords[k]) # 0

\* the simplices a Delaunay triangulation may hold: proper triangles whose
\* circumcircle has no input point strictly inside
DelaunayCandidates(coords) ==
    {t \in SUBSET (1..Len(coords)) :
        /\ Cardinality(t) = 3
        /\ LET c == Corners(t)
           IN  /\ Orient(coords[c[1]], coords[c[2]], coords[c[3]]) # 0
               /\ \A d \in 1..Len(coords) :
                     ~ InCircle(coords[c[1]], coords[c[2]], coords[c[3]], coords[d])}

\* a side of triangle t1 separates it from triangle t2
SeparatedBySide(coords, t1, t2) ==
    \E p \in t1, q \in t1 :
        /\ p # q
        /\ LET r == CHOOSE x \in t1 : x # p /\ x # q
           IN  \A v \in t2 :
                  Orient(coords[p], coords[q], coords[v])
                  * Orient(coords[p], coords[q], coords[r]) <= 0

\* the interiors of two simplices meet
Overlap(coords, t1, t2) ==
    ~ (SeparatedBySide(coords, t1, t2) \/ SeparatedBySide(coords, t2, t1))

\* tri.simplices: any triangulation Qhull may return (which of two coincident
\* points it keeps, and how it splits cocircular points, is its choice)
Triangulations(coords) ==
    LET cand == DelaunayCandidates(coords)
        Disjoint(S) == \A t1 \in S, t2 \in S : t1 = t2 \/ ~ Overlap(coords, t1, t2)
    IN  {S \in SUBSET cand :
            /\ Disjoint(S)
            /\ \A t \in cand \ S : ~ Disjoint(S \cup {t})}

\* the index pairs (simplex[i], simplex[(i + 1) % 3]) of all simplices
SimplexEdges(S) == {e \in SUBSET (UNION S) : Cardinality(e) = 2 /\ \E t \in S : e \subseteq t}

\* the graph edge an index pair becomes: the pair of the two building ids
EdgeKey(ids, e) == {ids[i] : i \in e}

\* the distance computed for an index pair
SimplexEdgeDistance(coords, e) ==
    LET c == SetToSeq(e) IN haversine_distance(coords[c[1]], coords[c[2]])

\* the graphs the edge loop may build: `if not G.has_edge(node1, node2)` keeps
\* for every graph edge the distance of the first index pair that reaches it
DelaunayEdgeMaps(ids, coords, S) ==
    LET keys == {EdgeKey(ids, e) : e \in SimplexEdges(S)}
        Dists(k) == {SimplexEdgeDistance(coords, e) :
                        e \in {x \in SimplexEdges(S) : EdgeKey(ids, x) = k}}
    IN  {f \in [keys -> UNION {Dists(k) : k \in keys}] : \A k \in keys : f[k] \in Dists(k)}

WithEdges(g, f) ==
    [nodes |-> g.nodes, attrs |-> g.attrs,
     edges |-> [k \in DOMAIN f |-> [weight |-> f[k], distance_m |-> f[k]]]]

\* a builder that adds the nodes only after the triangulation has succeeded
build_delaunay_graph_nodes_after_triangulation(df) ==
    LET g == AddNodes(EmptyGraph, df, 1)
        coords == Coords(df)
    IN  IF DelaunayRaises(coords) THEN {EmptyGraph}
        ELSE {WithEdges(g, f) :
                f \in UNION {DelaunayEdgeMaps(IdList(df), coords, S) :
                                S \in Triangulations(coords)}}

\* the graphs build_delaunay_graph may return
build_delaunay_graph(df) ==
    LET g == AddNodes(EmptyGraph, df, 1)
        coords == Coords(df)
    IN  IF DelaunayRaises(coords) THEN {g}
        ELSE {WithEdges(g, f) :
                f \in UNION {DelaunayEdgeMaps(IdList(df), coords, S) :
                                S \in Triangulations(coords)}}

BuildDelaunay ==
    /\ pc = "input"
    /\ G' \in build_delaunay_graph(buildings_df)
    /\ pc' = "graph"
    /\ call' = "build_delaunay_graph"
    /\ args' = <<>>
    /\ ret' = [raised |-> FALSE]
    /\ pair_log' = NoLog
    /\ UNCHANGED <<files, locals, invoked, buildings_df, footprints>>

-----------------------------------------------------------------------------
(* Reals: <<num, den>> with den > 0 is num/den *)

Rat(n, d) == <<n, d>>

NaN == <<0, 0>>

PosInf == <<1, 0>>

None == <<0, -1>>

IsNumber(x) == x[2] > 0

RatAdd(x, y) == <<x[1] * y[2] + y[1] * x[2], x[2] * y[2]>>

RatEq(x, y) == IsNumber(x) /\ IsNumber(y) /\ x[1] * y[2] = y[1] * x[2]

RatLeq(x, y) == IsNumber(x) /\ IsNumber(y) /\ x[1] * y[2] <= y[1] * x[2]

\* sum of the reals f[x] over x in S
RECURSIVE RatSum(_, _)
RatSum(f, S) == IF S = {} THEN Rat(0, 1)
                ELSE LET x == CHOOSE y \in S : TRUE IN RatAdd(f[x], RatSum(f, S \ {x}))

\* a length in distance units as metres
Metres(units) == Rat(units, UnitsPerMetre)

-----------------------------------------------------------------------------
(* Shortest paths and components (networkx) *)

\* no path
NoPath == -1

Neighbors(g, u) == {v \in NodeSet(g) : {u, v} \in DOMAIN g.edges}

Weight(g, u, v) == g.edges[{u, v}].weight

\* one round of edge relaxation of the distances d from a source, nbr[v]
\* being the neighbours of v
RelaxOnce(g, nbr, d) ==
    [v \in DOMAIN d |->
        LET via == {d[u] + Weight(g, u, v) : u \in {x \in nbr[v] : d[x] # NoPath}}
            all == via \cup (IF d[v] # NoPath THEN {d[v]} ELSE {})
        IN  IF all = {} THEN NoPath
            ELSE CHOOSE m \in all : \A k \in all : m <= k]

\* relaxation until no distance changes
RECURSIVE Relax(_, _, _)
Relax(g, nbr, d) ==
    LET next == RelaxOnce(g, nbr, d)
    IN  IF next = d THEN d ELSE Relax(g, nbr, next)

\* weighted shortest-path distance from source to every node, NoPath where
\* there is none
Distances(g, source) ==
    LET nodes == NodeSet(g)
        E == DOMAIN g.edges
    IN  Relax(g, [v \in nodes |-> {u \in nodes : {u, v} \in E}],
              [v \in nodes |-> IF v = source THEN 0 ELSE NoPath])

\* a search that ignores the weights and measures a path by its edges
single_source_dijkstra_path_length_by_hops(g, source, cutoff) ==
    LET unit == [nodes |-> g.nodes, attrs |-> g.attrs,
                 edges |-> [e \in DOMAIN g.edges |-> [weight |-> 1, distance_m |-> 1]]]
        d == Distances(unit, source)
        found == {v \in NodeSet(g) : d[v] # NoPath /\ (cutoff = NoPath \/ d[v] <= cutoff)}
    IN  [v \in found |-> d[v]]

\* a search that leaves out the nodes at exactly the cutoff
single_source_dijkstra_path_length_below(g, source, cutoff) ==
    LET d == Distances(g, source)
        found == {v \in NodeSet(g) : d[v] # NoPath /\ (cutoff = NoPath \/ d[v] < cutoff)}
    IN  [v \in found |-> d[v]]

\* nx.single_source_dijkstra_path_length(G, source, weight='weight',
\* cutoff=cutoff): node -> distance for the nodes within the cutoff (NoPath
\* for no cutoff), the source included
single_source_dijkstra_path_length(g, source, cutoff) ==
    LET d == Distances(g, source)
        found == {v \in NodeSet(g) : d[v] # NoPath /\ (cutoff = NoPath \/ d[v] <= cutoff)}
    IN  [v \in found |-> d[v]]

\* the connected component of a node
Component(g, u) == LET d == Distances(g, u) IN {v \in NodeSet(g) : d[v] # NoPath}

\* nx.connected_components(G): the components in the order of their first node
RECURSIVE ComponentsFrom(_, _, _)
ComponentsFrom(g, i, seen) ==
    IF i > Len(g.nodes) THEN <<>>
    ELSE IF g.nodes[i] \in seen THEN ComponentsFrom(g, i + 1, seen)
    ELSE LET C == Component(g, g.nodes[i])
         IN  <<C>> \o ComponentsFrom(g, i + 1, seen \cup C)

connected_components(g) == ComponentsFrom(g, 1, {})

\* a count that leaves out the components of one node
number_of_larger_components(g) ==
    Len(SelectSeq(connected_components(g), LAMBDA C : Cardinality(C) > 1))

number_connected_components(g) == Len(connected_components(g))

\* nx.is_connected raises NetworkXPointlessConcept on the null graph
IsConnectedRaises(g) == number_of_nodes(g) = 0

is_connected(g) == Component(g, g.nodes[1]) = NodeSet(g)

\* the subgraph induced by a set of nodes: G.subgraph(component)
subgraph(g, C) ==
    [nodes |-> SelectSeq(g.nodes, LAMBDA v : v \in C),
     attrs |-> [v \in C |-> g.attrs[v]],
     edges |-> [e \in {x \in DOMAIN g.edges : x \subseteq C} |-> g.edges[e]]]

-----------------------------------------------------------------------------
(* calculate_network_statistics *)

\* nx.density(G)
density(g) ==
    LET n == number_of_nodes(g)
        m == number_of_edges(g)
    IN  IF m = 0 \/ n <= 1 THEN Rat(0, 1) ELSE Rat(2 * m, n * (n - 1))

\* nx.average_shortest_path_length(G, weight='weight') of a connected graph,
\* in metres
average_shortest_path_length(g) ==
    LET n == number_of_nodes(g)
        total == [s \in NodeSet(g) |-> SumOver(Distances(g, s), NodeSet(g))]
    IN  IF n = 1 THEN Rat(0, 1)
        ELSE Rat(SumOver(total, NodeSet(g)), n * (n - 1) * UnitsPerMetre)

\* nx.clustering(G, v): self-loops are ignored
clustering(g, v) ==
    LET nbrs == Neighbors(g, v) \ {v}
        d == Cardinality(nbrs)
        links == Cardinality({e \in DOMAIN g.edges : Cardinality(e) = 2 /\ e \subseteq nbrs})
    IN  IF d < 2 THEN Rat(0, 1) ELSE Rat(2 * links, d * (d - 1))

\* nx.average_clustering(G) of a graph with nodes
average_clustering(g) ==
    LET total == RatSum([v \in NodeSet(g) |-> clustering(g, v)], NodeSet(g))
    IN  Rat(total[1], total[2] * number_of_nodes(g))

\* the dictionary literal calls nx.is_connected outside any handler
StatisticsRaises(g) == IsConnectedRaises(g)

\* a dictionary whose average shortest path length is taken over the joined
\* pairs of any graph, connected or not
calculate_network_statistics_over_joined_pairs(g) ==
    LET n == number_of_nodes(g)
        degrees == [v \in NodeSet(g) |-> degree(g, v)]
        joined == [s \in NodeSet(g) |-> Component(g, s) \ {s}]
        total == [s \in NodeSet(g) |-> SumOver(Distances(g, s), joined[s])]
        pairs == SumOver([s \in NodeSet(g) |-> Cardinality(joined[s])], NodeSet(g))
    IN  [num_nodes |-> n,
         num_edges |-> number_of_edges(g),
         density |-> density(g),
         average_degree |-> IF n > 0 THEN Rat(SumOver(degrees, NodeSet(g)), n)
                            ELSE Rat(0, 1),
         is_connected |-> is_connected(g),
         num_connected_components |-> number_connected_components(g),
         average_shortest_path_length |->
             IF pairs = 0 THEN Rat(0, 1)
             ELSE Rat(SumOver(total, NodeSet(g)), pairs * UnitsPerMetre),
         average_clustering |-> average_clustering(g)]

\* the dictionary returned for a graph with nodes
calculate_network_statistics(g) ==
    LET n == number_of_nodes(g)
        degrees == [v \in NodeSet(g) |-> degree(g, v)]
        connected == is_connected(g)
    IN  [num_nodes |-> n,
         num_edges |-> number_of_edges(g),
         density |-> density(g),
         average_degree |-> IF n > 0 THEN Rat(SumOver(degrees, NodeSet(g)), n)
                            ELSE Rat(0, 1),
         is_connected |-> connected,
         num_connected_components |-> number_connected_components(g),
         average_shortest_path_length |->
             IF connected THEN average_shortest_path_length(g) ELSE None,
         average_clustering |-> average_clustering(g)]

Statistics ==
    /\ pc = "graph"
    /\ call' = "calculate_network_statistics"
    /\ args' = <<>>
    /\ ret' = IF StatisticsRaises(G) THEN [raised |-> TRUE]
              ELSE [raised |-> FALSE, value |-> calculate_network_statistics(G)]
    /\ pc' = "analysed"
    /\ UNCHANGED <<files, locals, invoked, buildings_df, footprints, G, pair_log>>

-----------------------------------------------------------------------------
(* Accessibility engine *)

\* the mean of the distances to the other nodes found, in metres; 0.0 when
\* there is none
MeanOrZero(paths, node) ==
    LET others == DOMAIN paths \ {node}
    IN  IF others # {} THEN Rat(SumOver(paths, others), Cardinality(others) * UnitsPerMetre)
        ELSE Rat(0, 1)

\* next(nx.connected_components(G), None)
FirstComponent(g) == connected_components(g)[1]

\* the value one node gets, `connected` being nx.is_connected(G) and
\* `component` the first connected component
AveragePathDistanceOf(g, node, connected, component) ==
    IF connected
    THEN MeanOrZero(single_source_dijkstra_path_length(g, node, NoPath), node)
    ELSE IF node \in component
         THEN MeanOrZero(single_source_dijkstra_path_length(subgraph(g, component), node, NoPath),
                         node)
         ELSE PosInf

\* calculate_average_path_distance(G, buildings_df): node -> value
calculate_average_path_distance(g) ==
    LET connected == is_connected(g)
        component == FirstComponent(g)
    IN  [node \in NodeSet(g) |-> AveragePathDistanceOf(g, node, connected, component)]

\* a consumer that cuts G itself down to the first component where the code
\* takes a subgraph view of it
AveragePathDistanceCuttingGraph ==
    /\ pc = "graph"
    /\ call' = "calculate_average_path_distance"
    /\ args' = <<>>
    /\ ret' = [raised |-> FALSE, value |-> calculate_average_path_distance(G)]
    /\ pc' = "analysed"
    /\ G' = IF number_of_nodes(G) = 0 \/ is_connected(G) THEN G
            ELSE subgraph(G, FirstComponent(G))
    /\ UNCHANGED <<files, locals, invoked, buildings_df, footprints, pair_log>>

AveragePathDistance ==
    /\ pc = "graph"
    /\ call' = "calculate_average_path_distance"
    /\ args' = <<>>
    /\ ret' = [raised |-> FALSE, value |-> calculate_average_path_distance(G)]
    /\ pc' = "analysed"
    /\ UNCHANGED <<files, locals, invoked, buildings_df, footprints, G, pair_log>>

\* the count the inner loop gives row idx: the other rows within the radius
DistanceCountOfRow(df, idx, R) ==
    Cardinality({idx2 \in 1..Len(df) :
                    /\ idx2 # idx
                    /\ haversine_distance(Centroid(df[idx]), Centroid(df[idx2])) <= R})

\* calculate_distance_accessibility: accessibility[building_id] = count keeps
\* the count of the last row with that id
calculate_distance_accessibility(df, R) ==
    [id \in IdsOf(df) |->
        DistanceCountOfRow(df, CHOOSE i \in 1..Len(df) :
                                  /\ df[i].building_id = id
                                  /\ \A k \in (i + 1)..Len(df) : df[k].building_id # id, R)]

\* calculate_network_accessibility: the nodes within network distance R, the
\* node itself excluded
calculate_network_accessibility(g, R) ==
    [node \in NodeSet(g) |->
        Cardinality(DOMAIN single_source_dijkstra_path_length(g, node, R)) - 1]

\* Series.reindex(index, fill_value=fill) read at one label
Reindex(series, label, fill) == IF label \in DOMAIN series THEN series[label] ELSE fill

\* a weighting that takes normalized_area = 0 when all areas are equal
calculate_weighted_accessibility_unweighted_when_equal(df, distance_accessibility) ==
    LET areas == {df[i].area_m2 : i \in 1..Len(df)}
        max_area == CHOOSE m \in areas : \A a \in areas : a <= m
        min_area == CHOOSE m \in areas : \A a \in areas : m <= a
        area_range == max_area - min_area
    IN  [i \in 1..Len(df) |->
            LET aligned == Reindex(distance_accessibility, df[i].building_id, 0)
            IN  IF area_range > 0
                THEN Rat(aligned * (area_range + df[i].area_m2 - min_area), area_range)
                ELSE Rat(aligned, 1)]

\* calculate_weighted_accessibility with area_weight=True: one value per row
calculate_weighted_accessibility(df, distance_accessibility) ==
    LET areas == {df[i].area_m2 : i \in 1..Len(df)}
        max_area == CHOOSE m \in areas : \A a \in areas : a <= m
        min_area == CHOOSE m \in areas : \A a \in areas : m <= a
        area_range == max_area - min_area
    IN  [i \in 1..Len(df) |->
            LET aligned == Reindex(distance_accessibility, df[i].building_id, 0)
            IN  IF area_range > 0
                THEN Rat(aligned * (area_range + df[i].area_m2 - min_area), area_range)
                ELSE Rat(aligned * 2, 1)]

\* .replace([np.inf, -np.inf], np.nan)
ReplaceInf(x) == IF x = PosInf THEN NaN ELSE x

\* the accessibility table of calculate_accessibility, one row per table row
calculate_accessibility(df, g, R) ==
    LET distance_accessibility == calculate_distance_accessibility(df, R)
        network_accessibility == calculate_network_accessibility(g, R)
        avg_path_distance == calculate_average_path_distance(g)
        weighted_accessibility == calculate_weighted_accessibility(df, distance_accessibility)
    IN  [i \in 1..Len(df) |->
            LET id == df[i].building_id
            IN  [building_id |-> id,
                 distance_count |-> Reindex(distance_accessibility, id, 0),
                 network_reachable_count |-> Reindex(network_accessibility, id, 0),
                 avg_path_distance_m |-> ReplaceInf(Reindex(avg_path_distance, id, NaN)),
                 weighted_accessibility |-> weighted_accessibility[i]]]

\* accessibility radii R, in distance units
Radii == {2, 4}

\* the tables calculate_accessibility may read next to the graph of df: df
\* itself, or df with one more building that the graph does not know
AccessibilityTables(df) ==
    {df} \cup {Append(df, Row(MaxId(df) + 1, site, 1)) : site \in Sites}

\* a call calculate_accessibility(input_csv_path, input_graph_path, ..., R),
\* the two files read into `input` and G
AccessibilityWithin(radii) ==
    /\ pc = "graph"
    /\ \E R \in radii, input \in AccessibilityTables(buildings_df) :
          /\ call' = "calculate_accessibility"
          /\ args' = [distance_threshold |-> R, buildings_df |-> input]
          /\ ret' = [raised |-> FALSE, value |-> calculate_accessibility(input, G, R)]
    /\ pc' = "analysed"
    /\ UNCHANGED <<files, locals, invoked, buildings_df, footprints, G, pair_log>>

\* calculate_accessibility with a radius of Radii
Accessibility == AccessibilityWithin(Radii)

\* a call calculate_distance_accessibility(buildings_df, R): the Series, one
\* entry per building id
DistanceAccessibility ==
    /\ pc = "graph"
    /\ \E R \in Radii :
          /\ call' = "calculate_distance_accessibility"
          /\ args' = [distance_threshold |-> R]
          /\ ret' = [raised |-> FALSE,
                     value |-> calculate_distance_accessibility(buildings_df, R)]
    /\ pc' = "analysed"
    /\ UNCHANGED <<files, locals, invoked, buildings_df, footprints, G, pair_log>>

\* a call calculate_network_accessibility(G, buildings_df, R): the Series, one
\* entry per node
NetworkAccessibility ==
    /\ pc = "graph"
    /\ \E R \in Radii :
          /\ call' = "calculate_network_accessibility"
          /\ args' = [distance_threshold |-> R]
          /\ ret' = [raised |-> FALSE, value |-> calculate_network_accessibility(G, R)]
    /\ pc' = "analysed"
    /\ UNCHANGED <<files, locals, invoked, buildings_df, footprints, G, pair_log>>

\* a call calculate_weighted_accessibility(buildings_df, distance_accessibility,
\* area_weight=True) on the Series of calculate_distance_accessibility: one
\* value per table row
WeightedAccessibility ==
    /\ pc = "graph"
    /\ \E R \in Radii :
          LET distance_accessibility == calculate_distance_accessibility(buildings_df, R)
          IN  /\ call' = "calculate_weighted_accessibility"
              /\ args' = [distance_threshold |-> R]
              /\ ret' = [raised |-> FALSE,
                         value |-> calculate_weighted_accessibility(buildings_df,
                                                                    distance_accessibility)]
    /\ pc' = "analysed"
    /\ UNCHANGED <<files, locals, invoked, buildings_df, footprints, G, pair_log>>

-----------------------------------------------------------------------------
(* Centrality engine *)

\* nx.degree_centrality(G): 1 for every node of a graph of at most one node
degree_centrality(g) ==
    LET n == number_of_nodes(g)
    IN  [v \in NodeSet(g) |-> IF n <= 1 THEN Rat(1, 1) ELSE Rat(degree(g, v), n - 1)]

\* the simple paths of at most k edges that extend the paths in P
RECURSIVE Extend(_, _, _)
Extend(g, P, k) ==
    IF k = 0 THEN P
    ELSE P \cup Extend(g, {Append(p, v) : p \in P, v \in NodeSet(g)} \cap
                          {q \in {Append(p, v) : p \in P, v \in NodeSet(g)} :
                              /\ \A i \in 1..(Len(q) - 1) : q[i] # q[Len(q)]
                              /\ has_edge(g, q[Len(q) - 1], q[Len(q)])}, k - 1)

SimplePaths(g) == Extend(g, {<<v>> : v \in NodeSet(g)}, number_of_nodes(g) - 1)

PathWeight(g, p) == SumSeq([i \in 1..(Len(p) - 1) |-> Weight(g, p[i], p[i + 1])])

\* the shortest paths from s to t among the simple paths
ShortestPaths(g, paths, s, t) ==
    LET st == {p \in paths : p[1] = s /\ p[Len(p)] = t}
        w == [p \in st |-> PathWeight(g, p)]
    IN  {p \in st : \A q \in st : w[p] <= w[q]}

\* nx.betweenness_centrality(G, weight='weight'), normalized: the share of the
\* shortest paths between the other nodes that pass through v, over all
\* ordered pairs, scaled by 1/((n-1)(n-2)) when n > 2.  Graphs above 50 nodes,
\* where the code samples 50 pivots, lie outside the bounds.
betweenness_centrality(g) ==
    LET n == number_of_nodes(g)
        paths == SimplePaths(g)
        pairs(v) == {st \in (NodeSet(g) \ {v}) \X (NodeSet(g) \ {v}) :
                        st[1] # st[2] /\ ShortestPaths(g, paths, st[1], st[2]) # {}}
        share(v) == [st \in pairs(v) |->
                        LET sp == ShortestPaths(g, paths, st[1], st[2])
                        IN  Rat(Cardinality({p \in sp : \E i \in 1..Len(p) : p[i] = v}),
                                Cardinality(sp))]
    IN  [v \in NodeSet(g) |->
            LET total == RatSum(share(v), pairs(v))
            IN  IF n > 2 THEN Rat(total[1], total[2] * (n - 1) * (n - 2)) ELSE total]

\* nx.closeness_centrality(G, distance='weight'), per metre: for every node
\* (reached - 1) / total distance, scaled by (reached - 1) / (len(G) - 1); 0.0
\* when the total distance is 0
nx_closeness_centrality(g) ==
    [v \in NodeSet(g) |->
        LET sp == single_source_dijkstra_path_length(g, v, NoPath)
            totsp == SumOver(sp, DOMAIN sp)
            reached == Cardinality(DOMAIN sp)
            len_G == number_of_nodes(g)
        IN  IF totsp > 0 /\ len_G > 1
            THEN Rat((reached - 1) * (reached - 1) * UnitsPerMetre, totsp * (len_G - 1))
            ELSE Rat(0, 1)]

\* the closeness of the nodes of one component of a disconnected graph
ComponentCloseness(g, C) ==
    IF Cardinality(C) > 1 THEN nx_closeness_centrality(subgraph(g, C))
    ELSE [v \in C |-> Rat(0, 1)]

\* closeness taken over the whole graph, the components ignored
closeness_centrality_whole(g) == nx_closeness_centrality(g)

\* the body of the closeness try block, for a graph with nodes
closeness_centrality(g) ==
    IF is_connected(g) THEN nx_closeness_centrality(g)
    ELSE LET components == connected_components(g)
             per == [k \in 1..Len(components) |-> ComponentCloseness(g, components[k])]
         IN  [v \in NodeSet(g) |->
                 per[CHOOSE k \in 1..Len(components) : v \in components[k]][v]]

\* total weight of the edges at u (a self-loop once): a row sum of the
\* adjacency matrix
RowSum(g, u) == SumOver([v \in Neighbors(g, u) |-> Weight(g, u, v)], Neighbors(g, u))

RECURSIVE Product(_, _)
Product(f, S) == IF S = {} THEN 1
                 ELSE LET x == CHOOSE y \in S : TRUE IN f[x] * Product(f, S \ {x})

\* nx.pagerank(G, weight='weight'), alpha = 0.85: the power iteration
\* x <- alpha (x A + dangling mass / N) + (1 - alpha) / N from the uniform
\* vector, A the row-normalised weight matrix, a node of row sum 0 dangling.
\* The value is the first iterate, over the common denominator PageRankDen.
PageRankDen(g) ==
    LET live == {u \in NodeSet(g) : RowSum(g, u) # 0}
    IN  20 * number_of_nodes(g) * number_of_nodes(g) * Product([u \in live |-> RowSum(g, u)], live)

\* a power iteration that drops the mass of the dangling nodes
pagerank_without_dangling(g) ==
    LET n == number_of_nodes(g)
        live == {u \in NodeSet(g) : RowSum(g, u) # 0}
        P == Product([u \in live |-> RowSum(g, u)], live)
    IN  [v \in NodeSet(g) |->
            LET inflow == SumOver([u \in Neighbors(g, v) \cap live |->
                                      Weight(g, u, v) * (P \div RowSum(g, u))],
                                  Neighbors(g, v) \cap live)
            IN  Rat(17 * n * inflow + 3 * n * P, PageRankDen(g))]

pagerank(g) ==
    LET n == number_of_nodes(g)
        live == {u \in NodeSet(g) : RowSum(g, u) # 0}
        P == Product([u \in live |-> RowSum(g, u)], live)
        dangling == Cardinality(NodeSet(g) \ live)
    IN  [v \in NodeSet(g) |->
            LET inflow == SumOver([u \in Neighbors(g, v) \cap live |->
                                      Weight(g, u, v) * (P \div RowSum(g, u))],
                                  Neighbors(g, v) \cap live)
            IN  Rat(17 * (n * inflow + dangling * P) + 3 * n * P, PageRankDen(g))]

\* the four library calls of the centrality pass
Metrics == {"degree", "betweenness", "closeness", "pagerank"}

\* the library calls that raise of themselves: nx.is_connected, first call of
\* the closeness block, on the null graph
RaisesOfItself(g) == IF IsConnectedRaises(g) THEN {"closeness"} ELSE {}

\* nx.degree_centrality is called outside any handler
CentralityRaises(failed) == "degree" \in failed

\* what the four library calls return when they return
LibraryResults(g) ==
    [degree |-> degree_centrality(g),
     betweenness |-> betweenness_centrality(g),
     closeness |-> IF IsConnectedRaises(g) THEN <<>> ELSE closeness_centrality(g),
     pagerank |-> pagerank(g)]

\* the records returned when the library calls in `failed` raise and the
\* others return nx: a failed betweenness or closeness is 0.0 for every node,
\* a failed PageRank 1.0 / len(nodes)
calculate_centrality_metrics(g, failed, nx) ==
    LET nodes == g.nodes
        betweenness == IF "betweenness" \in failed THEN [v \in NodeSet(g) |-> Rat(0, 1)]
                       ELSE nx.betweenness
        closeness == IF "closeness" \in failed THEN [v \in NodeSet(g) |-> Rat(0, 1)]
                     ELSE nx.closeness
        pr == IF "pagerank" \in failed THEN [v \in NodeSet(g) |-> Rat(1, Len(nodes))]
              ELSE nx.pagerank
    IN  [i \in 1..Len(nodes) |->
            [building_id |-> nodes[i],
             degree |-> degree(g, nodes[i]),
             degree_centrality |-> nx.degree[nodes[i]],
             betweenness_centrality |-> betweenness[nodes[i]],
             closeness_centrality |-> closeness[nodes[i]],
             pagerank |-> pr[nodes[i]]]]

\* calculate_centrality_metrics(G); any of the library calls may raise
Centrality ==
    /\ pc = "graph"
    /\ LET nx == LibraryResults(G)
       IN  \E raising \in SUBSET Metrics :
              LET failed == raising \cup RaisesOfItself(G)
              IN  /\ call' = "calculate_centrality_metrics"
                  /\ args' = <<>>
                  /\ ret' = IF CentralityRaises(failed)
                            THEN [raised |-> TRUE, failed |-> failed]
                            ELSE [raised |-> FALSE, failed |-> failed,
                                  value |-> calculate_centrality_metrics(G, failed, nx)]
    /\ pc' = "analysed"
    /\ UNCHANGED <<files, locals, invoked, buildings_df, footprints, G, pair_log>>

-----------------------------------------------------------------------------
(* calculate_shortest_paths *)

\* the node pairs (nodes[i], nodes[j]), i < j
NodePairs(g) ==
    {<<g.nodes[q[1]], g.nodes[q[2]]>> :
        q \in {r \in (1..Len(g.nodes)) \X (1..Len(g.nodes)) : r[1] < r[2]}}

\* a sample that may hold fewer than k pairs, as one drawn with replacement
SampleOrFewer(pairs, k) == {S \in SUBSET pairs : Cardinality(S) <= k /\ (k > 0 => S # {})}

\* random.sample(pairs, k): the possible samples, k pairs without replacement
Sample(pairs, k) == {S \in SUBSET pairs : Cardinality(S) = k}

\* the pair lists the loop may run over
EvaluatedPairs(g, max_paths) ==
    LET pairs == NodePairs(g)
        total_pairs == (number_of_nodes(g) * (number_of_nodes(g) - 1)) \div 2
    IN  IF total_pairs > max_paths
        THEN Sample(pairs, Min(max_paths, Cardinality(pairs)))
        ELSE {pairs}

\* nx.has_path(G, source, target)
has_path(g, source, target) == Distances(g, source)[target] # NoPath

\* nx.shortest_path(G, source, target, weight='weight'): one of the paths of
\* least weight
shortest_path(g, paths, source, target) ==
    CHOOSE p \in ShortestPaths(g, paths, source, target) : TRUE

\* a length taken without weight='weight': the number of edges
shortest_path_length_unweighted(g, source, target) ==
    single_source_dijkstra_path_length_by_hops(g, source, NoPath)[target]

\* nx.shortest_path_length(G, source, target, weight='weight')
shortest_path_length(g, source, target) == Distances(g, source)[target]

\* the dictionary returned when the loop runs over `pairs`; the keys
\* f"{source}->{target}" are the pairs
calculate_shortest_paths(g, pairs) ==
    LET found == {p \in pairs : has_path(g, p[1], p[2])}
        simple == SimplePaths(g)
    IN  [paths |-> [p \in found |-> shortest_path(g, simple, p[1], p[2])],
         path_lengths |-> [p \in found |-> shortest_path_length(g, p[1], p[2])],
         total_pairs |-> (number_of_nodes(g) * (number_of_nodes(g) - 1)) \div 2,
         calculated_pairs |-> Cardinality(found)]

\* the caps max_paths
MaxPathsCaps == 0..MaxN

\* a call calculate_shortest_paths(G, max_paths); `evaluated` records the
\* pairs the loop ran over
CalculateShortestPaths ==
    /\ pc = "graph"
    /\ \E max_paths \in MaxPathsCaps :
          \E pairs \in EvaluatedPairs(G, max_paths) :
             /\ call' = "calculate_shortest_paths"
             /\ args' = [max_paths |-> max_paths]
             /\ ret' = [raised |-> FALSE, evaluated |-> pairs,
                        value |-> calculate_shortest_paths(G, pairs)]
    /\ pc' = "analysed"
    /\ UNCHANGED <<files, locals, invoked, buildings_df, footprints, G, pair_log>>

-----------------------------------------------------------------------------
(* Specifications *)

\* a building table and a footprint map holding the ground surface of any of
\* its buildings
Init ==
    /\ buildings_df \in Tables
    /\ \E have \in SUBSET IdsOf(buildings_df) :
          footprints = get_footprints(buildings_df, have)
    /\ pc = "input"
    /\ G = EmptyGraph
    /\ pair_log = NoLog
    /\ call = "none"
    /\ args = <<>>
    /\ ret = <<>>
    /\ NoPipeline

\* graph construction
Next == BuildDistance \/ BuildDelaunay

Spec == Init /\ [][Next]_vars

\* a building table without footprint file (footprints = {})
InitAnalysis ==
    /\ buildings_df \in Tables
    /\ footprints = get_footprints(buildings_df, {})
    /\ pc = "input"
    /\ G = EmptyGraph
    /\ pair_log = NoLog
    /\ call = "none"
    /\ args = <<>>
    /\ ret = <<>>
    /\ NoPipeline

\* graph construction, then the consumers of the graph in any order
NextAnalysis ==
    \/ BuildDistanceForPipeline
    \/ BuildDelaunay
    \/ Statistics
    \/ Centrality
    \/ CalculateShortestPaths
    \/ AveragePathDistance
    \/ Accessibility

SpecAnalysis == InitAnalysis /\ [][NextAnalysis]_vars

\* the caller has taken the result and goes on to its next consumer of the
\* same graph
NextConsumer ==
    /\ pc = "analysed"
    /\ pc' = "graph"
    /\ call' = "none"
    /\ args' = <<>>
    /\ ret' = <<>>
    /\ UNCHANGED <<files, locals, invoked, buildings_df, footprints, G, pair_log>>

\* graph construction, then the consumers of the graph one after the other,
\* in any order and any number of times
NextConsumers ==
    \/ BuildDistanceForPipeline
    \/ BuildDelaunay
    \/ Statistics
    \/ Centrality
    \/ CalculateShortestPaths
    \/ NetworkAccessibility
    \/ AveragePathDistance
    \/ NextConsumer

SpecConsumers == InitAnalysis /\ [][NextConsumers]_vars

\* the table t with the areas of the profile: all buildings of one area, or
\* the area growing with the row
WithAreas(t, profile) ==
    [i \in 1..Len(t) |->
        Row(t[i].building_id, <<t[i].centroid_lon, t[i].centroid_lat>>,
            IF profile = "uniform" THEN 1 ELSE i)]

AreaProfiles == {"uniform", "ramp"}

\* a building table of equal or of different areas, without footprint file
InitAccessibility ==
    /\ buildings_df \in {WithAreas(t, profile) : t \in Tables, profile \in AreaProfiles}
    /\ footprints = get_footprints(buildings_df, {})
    /\ pc = "input"
    /\ G = EmptyGraph
    /\ pair_log = NoLog
    /\ call = "none"
    /\ args = <<>>
    /\ ret = <<>>
    /\ NoPipeline

\* graph construction, then the accessibility metrics one by one or the
\* whole table of calculate_accessibility
NextAccessibility ==
    \/ BuildDistanceForPipeline
    \/ BuildDelaunay
    \/ DistanceAccessibility
    \/ NetworkAccessibility
    \/ WeightedAccessibility
    \/ Accessibility

SpecAccessibility == InitAccessibility /\ [][NextAccessibility]_vars

\* default threshold of the builders, in metres
DefaultThresholdMetres == 200

\* four buildings at (0,0), (0,0.001), (0.002,0) degrees and a fourth far from
\* them; the fourth is put at (0.01,0.01) degrees, 1.5 km away, the squares of
\* larger coordinates exceeding the integers of the model
ScenarioBuildings ==
    <<Row(1, <<0, 0>>, 1),
      Row(2, <<0, MilliDegree>>, 1),
      Row(3, <<2 * MilliDegree, 0>>, 1),
      Row(4, <<10 * MilliDegree, 10 * MilliDegree>>, 1)>>

\* the four buildings in any order of the rows
ScenarioTables ==
    {[i \in 1..4 |-> ScenarioBuildings[perm[i]]] : perm \in Permutations(1..4)}

\* thresholds of 200 m and 250 m, radii of 200 m and 500 m, in distance units
ScenarioThresholds == {DefaultThresholdMetres * UnitsPerMetre,
                       (DefaultThresholdMetres + 50) * UnitsPerMetre}

ScenarioRadii == {DefaultThresholdMetres * UnitsPerMetre,
                  (DefaultThresholdMetres + 300) * UnitsPerMetre}

InitScenario ==
    /\ buildings_df \in ScenarioTables
    /\ footprints = get_footprints(buildings_df, {})
    /\ pc = "input"
    /\ G = EmptyGraph
    /\ pair_log = NoLog
    /\ call = "none"
    /\ args = <<>>
    /\ ret = <<>>
    /\ NoPipeline

\* build_network on the four buildings: the threshold graph
BuildScenario == BuildDistanceAt(ScenarioThresholds, {"haversine"}, {FALSE})

AccessibilityOfScenario == AccessibilityWithin(ScenarioRadii)

NextScenario ==
    \/ BuildScenario
    \/ Statistics
    \/ AccessibilityOfScenario

SpecScenario == InitScenario /\ [][NextScenario]_vars

-----------------------------------------------------------------------------
(* The stages build_network, analyze_network and calculate_accessibility *)

\* A stage is followed through what it does in order: "read" for loading an
\* input file, "compute" for building or measuring, "write" for saving an
\* output file.  Its outcome names the missing path of a FileNotFoundError
\* ("none" for no such error) and the output files written.

\* output_graph_path.replace('.pkl', '_stats.json') and the like: a path of
\* its own next to the given one (the extension is kept in the name here)
Derived(path, suffix) == path \o suffix

\* a stage that raises FileNotFoundError(f"... not found: {path}") after `steps`
FileNotFound(path, steps) ==
    [raised |-> TRUE, error |-> path, steps |-> steps, written |-> {}]

\* a stage that raises something else after `steps`
Failed(steps) ==
    [raised |-> TRUE, error |-> "none", steps |-> steps, written |-> {}]

\* a stage that returns
Returned(steps, written) ==
    [raised |-> FALSE, error |-> "none", steps |-> steps, written |-> written]

\* build_network(input_csv_path, output_graph_path, T, 'distance', False) on a
\* disk fs whose table file holds df; `fails` for an exception of the file
\* system or a library while the graph is built
build_network(fs, input_csv_path, output_graph_path, df, fp, T, fails) ==
    IF input_csv_path \notin fs THEN FileNotFound(input_csv_path, <<>>)
    ELSE IF fails \/ DistanceGraphRaises(build_distance_graph(df, fp, T, "haversine", FALSE))
    THEN Failed(<<"read", "compute">>)
    ELSE Returned(<<"read", "compute", "compute", "write", "write", "write">>,
                  {output_graph_path, Derived(output_graph_path, "_stats.json"),
                   Derived(output_graph_path, "_edges.csv")})

\* analyze_network(input_graph_path, output_metrics_path, output_paths_path)
analyze_network(fs, input_graph_path, output_metrics_path, output_paths_path, fails) ==
    IF input_graph_path \notin fs THEN FileNotFound(input_graph_path, <<>>)
    ELSE IF fails THEN Failed(<<"read", "compute">>)
    ELSE Returned(<<"read", "compute", "write", "compute", "write">>,
                  {output_metrics_path, output_paths_path})

\* a stage that looks for the graph file only when it comes to use the graph
accessibility_stage_loading_graph_late(fs, input_csv_path, input_graph_path, output_csv_path, fails) ==
    IF input_csv_path \notin fs THEN FileNotFound(input_csv_path, <<>>)
    ELSE IF input_graph_path \notin fs THEN FileNotFound(input_graph_path, <<"read", "compute">>)
    ELSE IF fails THEN Failed(<<"read", "compute", "read">>)
    ELSE Returned(<<"read", "compute", "read", "compute", "write">>, {output_csv_path})

\* calculate_accessibility(input_csv_path, input_graph_path, output_csv_path, R)
accessibility_stage(fs, input_csv_path, input_graph_path, output_csv_path, fails) ==
    IF input_csv_path \notin fs THEN FileNotFound(input_csv_path, <<>>)
    ELSE IF input_graph_path \notin fs THEN FileNotFound(input_graph_path, <<"read">>)
    ELSE IF fails THEN Failed(<<"read", "read", "compute">>)
    ELSE Returned(<<"read", "read", "compute", "write">>, {output_csv_path})

\* the table file and the graph file of the stages called on their own
InputPaths == {"all_buildings.csv", "building_network_graph.pkl"}

\* any table, with or without its file and a graph file on disk
InitStages ==
    /\ buildings_df \in Tables
    /\ footprints = get_footprints(buildings_df, {})
    /\ pc = "input"
    /\ G = EmptyGraph
    /\ pair_log = NoLog
    /\ call = "none"
    /\ args = <<>>
    /\ ret = <<>>
    /\ files \in SUBSET InputPaths
    /\ locals = <<>>
    /\ invoked = <<>>

\* a call build_network("all_buildings.csv", "building_network_graph.pkl", T)
BuildNetwork ==
    /\ pc = "input"
    /\ \E T \in Thresholds, fails \in BOOLEAN :
          LET out == build_network(files, "all_buildings.csv", "building_network_graph.pkl",
                                   buildings_df, footprints, T, fails)
          IN  /\ call' = "build_network"
              /\ args' = [input_csv_path |-> "all_buildings.csv",
                          output_graph_path |-> "building_network_graph.pkl",
                          distance_threshold |-> T]
              /\ ret' = out
              /\ files' = files \cup out.written
              /\ G' = IF out.raised THEN G
                      ELSE build_distance_graph(buildings_df, footprints, T, "haversine", FALSE)
    /\ pc' = "returned"
    /\ UNCHANGED <<buildings_df, footprints, pair_log, locals, invoked>>

\* a call analyze_network("building_network_graph.pkl", "network_metrics.csv",
\* "network_paths.json")
AnalyzeNetwork ==
    /\ pc = "input"
    /\ \E fails \in BOOLEAN :
          LET out == analyze_network(files, "building_network_graph.pkl",
                                     "network_metrics.csv", "network_paths.json", fails)
          IN  /\ call' = "analyze_network"
              /\ args' = [input_graph_path |-> "building_network_graph.pkl"]
              /\ ret' = out
              /\ files' = files \cup out.written
    /\ pc' = "returned"
    /\ UNCHANGED <<buildings_df, footprints, G, pair_log, locals, invoked>>

\* a call calculate_accessibility("all_buildings.csv",
\* "building_network_graph.pkl", "accessibility_metrics.csv", R)
CalculateAccessibility ==
    /\ pc = "input"
    /\ \E fails \in BOOLEAN :
          LET out == accessibility_stage(files, "all_buildings.csv",
                                         "building_network_graph.pkl",
                                         "accessibility_metrics.csv", fails)
          IN  /\ call' = "calculate_accessibility_stage"
              /\ args' = [input_csv_path |-> "all_buildings.csv",
                          input_graph_path |-> "building_network_graph.pkl"]
              /\ ret' = out
              /\ files' = files \cup out.written
    /\ pc' = "returned"
    /\ UNCHANGED <<buildings_df, footprints, G, pair_log, locals, invoked>>

NextStages == BuildNetwork \/ AnalyzeNetwork \/ CalculateAccessibility

SpecStages == InitStages /\ [][NextStages]_vars

-----------------------------------------------------------------------------
(* run_pipeline *)

\* the GML files the pattern may match
MaxFiles == 2

\* a building element without gml:id
NoId == 0

\* f"building_{idx}": a name no gml:id of the model has
GeneratedId(idx) == 0 - (idx + 1)

\* a building element: its gml:id, if any, and whether a ground surface is
\* found for it
ElementKinds ==
    {e \in [gml_id : {NoId, 1}, surface : BOOLEAN] : e.surface \/ e.gml_id = NoId}

\* a GML file: one that cannot be parsed, or its building elements in order,
\* at most m of them
GmlFiles(m) ==
    {[parses |-> FALSE, elements |-> <<>>]} \cup
    {[parses |-> TRUE, elements |-> es] :
        es \in UNION {[1..n -> ElementKinds] : n \in 0..m}}

\* what glob.glob(input_pattern) may return: at most n files of at most m
\* building elements in all
RECURSIVE GlobResults(_, _)
GlobResults(n, m) ==
    {<<>>} \cup
    (IF n = 0 THEN {}
     ELSE UNION {{<<f>> \o rest : rest \in GlobResults(n - 1, m - Len(f.elements))} :
                    f \in GmlFiles(m)})

\* CityGMLParser._extract_buildings and to_dataframe for the k-th file: the
\* elements with a ground surface, each under its gml:id or, without one, under
\* the name generated from its position idx (from 0) among the file's elements
RECURSIVE BuildingsFrom(_, _, _)
BuildingsFrom(elements, k, idx) ==
    IF idx >= Len(elements) THEN <<>>
    ELSE LET e == elements[idx + 1]
             building_id == IF e.gml_id = NoId THEN GeneratedId(idx) ELSE e.gml_id
         IN  (IF e.surface THEN <<Row(building_id, <<idx, k - 1>>, 1)>> ELSE <<>>)
             \o BuildingsFrom(elements, k, idx + 1)

\* the loop of step 1 from file k on: all_buildings, the tables of the files
\* that parse and hold a building
RECURSIVE AllBuildings(_, _)
AllBuildings(gml_files, k) ==
    IF k > Len(gml_files) THEN <<>>
    ELSE LET df == BuildingsFrom(gml_files[k].elements, k, 0)
         IN  (IF gml_files[k].parses /\ df # <<>> THEN <<df>> ELSE <<>>)
             \o AllBuildings(gml_files, k + 1)

\* pd.concat(all_buildings, ignore_index=True)
RECURSIVE concat(_)
concat(dfs) == IF dfs = <<>> THEN <<>> ELSE Head(dfs) \o concat(Tail(dfs))

\* a local variable not assigned yet, and one set to None
Unbound == "unbound"

PyNone == "None"

\* the pattern has matched any files, of at most MaxN building elements in
\* all; nothing has run
InitPipeline ==
    /\ buildings_df = <<>>
    /\ footprints = get_footprints(buildings_df, {})
    /\ pc = "start"
    /\ G = EmptyGraph
    /\ pair_log = NoLog
    /\ call = "none"
    /\ args = <<>>
    /\ ret = <<>>
    /\ files = {}
    /\ locals \in {[gml_files |-> fs, metrics_csv |-> Unbound, paths_json |-> Unbound,
                    accessibility_csv |-> Unbound] :
                      fs \in GlobResults(MaxFiles, MaxN)}
    /\ invoked = <<>>

\* step 1: no file, or extract_buildings for every file, and the combined
\* table and footprints unless nothing was extracted
ExtractAll ==
    /\ pc = "start"
    /\ LET gml_files == locals.gml_files
           all_buildings == AllBuildings(gml_files, 1)
           combined_df == concat(all_buildings)
       IN  IF gml_files = <<>>
           THEN /\ pc' = "stopped"
                /\ UNCHANGED <<buildings_df, footprints, files, invoked>>
           ELSE /\ invoked' = [k \in 1..Len(gml_files) |->
                                  [stage |-> "extract_buildings",
                                   raised |-> ~gml_files[k].parses]]
                /\ IF all_buildings = <<>>
                   THEN /\ pc' = "stopped"
                        /\ UNCHANGED <<buildings_df, footprints, files>>
                   ELSE /\ pc' = "extracted"
                        /\ buildings_df' = combined_df
                        /\ footprints' = get_footprints(combined_df, IdsOf(combined_df))
                        /\ files' = files \cup {"all_buildings.csv",
                                                "all_buildings_footprints.pkl"}
    /\ call' = "extract_buildings"
    /\ args' = <<>>
    /\ ret' = [raised |-> FALSE]
    /\ UNCHANGED <<G, pair_log, locals>>

\* a step 2 that goes on to the analysis whatever build_network did
BuildStageContinuingAfterFailure ==
    /\ pc = "extracted"
    /\ \E T \in Thresholds, fails \in BOOLEAN :
          LET out == build_network(files, "all_buildings.csv", "building_network_graph.pkl",
                                   buildings_df, footprints, T, fails)
          IN  /\ call' = "build_network"
              /\ args' = [input_csv_path |-> "all_buildings.csv",
                          output_graph_path |-> "building_network_graph.pkl",
                          distance_threshold |-> T]
              /\ ret' = out
              /\ files' = files \cup out.written
              /\ G' = IF out.raised THEN G
                      ELSE build_distance_graph(buildings_df, footprints, T, "haversine", FALSE)
              /\ invoked' = Append(invoked, [stage |-> "build_network", raised |-> out.raised])
              /\ pc' = "built"
    /\ UNCHANGED <<buildings_df, footprints, pair_log, locals>>

\* step 2: build_network; the pipeline returns when it raises
BuildStage ==
    /\ pc = "extracted"
    /\ \E T \in Thresholds, fails \in BOOLEAN :
          LET out == build_network(files, "all_buildings.csv", "building_network_graph.pkl",
                                   buildings_df, footprints, T, fails)
          IN  /\ call' = "build_network"
              /\ args' = [input_csv_path |-> "all_buildings.csv",
                          output_graph_path |-> "building_network_graph.pkl",
                          distance_threshold |-> T]
              /\ ret' = out
              /\ files' = files \cup out.written
              /\ G' = IF out.raised THEN G
                      ELSE build_distance_graph(buildings_df, footprints, T, "haversine", FALSE)
              /\ invoked' = Append(invoked, [stage |-> "build_network", raised |-> out.raised])
              /\ pc' = IF out.raised THEN "stopped" ELSE "built"
    /\ UNCHANGED <<buildings_df, footprints, pair_log, locals>>

\* a step 3 after whose failure the pipeline returns
AnalyzeStageStoppingOnFailure ==
    /\ pc = "built"
    /\ \E fails \in BOOLEAN :
          LET out == analyze_network(files, "building_network_graph.pkl",
                                     "network_metrics.csv", "network_paths.json", fails)
          IN  /\ call' = "analyze_network"
              /\ args' = [input_graph_path |-> "building_network_graph.pkl"]
              /\ ret' = out
              /\ files' = files \cup out.written
              /\ invoked' = Append(invoked, [stage |-> "analyze_network", raised |-> out.raised])
              /\ locals' = [locals EXCEPT
                               !.metrics_csv = IF out.raised THEN PyNone
                                               ELSE "network_metrics.csv",
                               !.paths_json = IF out.raised THEN PyNone
                                              ELSE "network_paths.json"]
              /\ pc' = IF out.raised THEN "stopped" ELSE "analysis_done"
    /\ UNCHANGED <<buildings_df, footprints, G, pair_log>>

\* step 3: analyze_network; metrics_csv and paths_json become None when it
\* raises
AnalyzeStage ==
    /\ pc = "built"
    /\ \E fails \in BOOLEAN :
          LET out == analyze_network(files, "building_network_graph.pkl",
                                     "network_metrics.csv", "network_paths.json", fails)
          IN  /\ call' = "analyze_network"
              /\ args' = [input_graph_path |-> "building_network_graph.pkl"]
              /\ ret' = out
              /\ files' = files \cup out.written
              /\ invoked' = Append(invoked, [stage |-> "analyze_network", raised |-> out.raised])
              /\ locals' = [locals EXCEPT
                               !.metrics_csv = IF out.raised THEN PyNone
                                               ELSE "network_metrics.csv",
                               !.paths_json = IF out.raised THEN PyNone
                                              ELSE "network_paths.json"]
    /\ pc' = "analysis_done"
    /\ UNCHANGED <<buildings_df, footprints, G, pair_log>>

\* step 4: calculate_accessibility; accessibility_csv becomes None when it
\* raises
AccessibilityStage ==
    /\ pc = "analysis_done"
    /\ \E fails \in BOOLEAN :
          LET out == accessibility_stage(files, "all_buildings.csv",
                                         "building_network_graph.pkl",
                                         "accessibility_metrics.csv", fails)
          IN  /\ call' = "calculate_accessibility_stage"
              /\ args' = [input_csv_path |-> "all_buildings.csv",
                          input_graph_path |-> "building_network_graph.pkl"]
              /\ ret' = out
              /\ files' = files \cup out.written
              /\ invoked' = Append(invoked, [stage |-> "calculate_accessibility",
                                             raised |-> out.raised])
              /\ locals' = [locals EXCEPT
                               !.accessibility_csv = IF out.raised THEN PyNone
                                                     ELSE "accessibility_metrics.csv"]
    /\ pc' = "accessibility_done"
    /\ UNCHANGED <<buildings_df, footprints, G, pair_log>>

\* step 5: visualize_network with the outputs of the stages that did not
\* fail; its failure is logged
VisualizeStage ==
    /\ pc = "accessibility_done"
    /\ \E fails \in BOOLEAN :
          /\ call' = "visualize_network"
          /\ args' = [buildings_csv_path |-> "all_buildings.csv",
                      graph_pkl_path |-> "building_network_graph.pkl",
                      metrics_csv_path |-> locals.metrics_csv,
                      accessibility_csv_path |-> locals.accessibility_csv,
                      paths_json_path |-> locals.paths_json]
          /\ ret' = IF fails THEN Failed(<<"read", "read">>)
                    ELSE Returned(<<"read", "read", "write">>, {"network_graph.png"})
          /\ files' = files \cup ret'.written
          /\ invoked' = Append(invoked, [stage |-> "visualize_network", raised |-> fails])
    /\ pc' = "done"
    /\ UNCHANGED <<buildings_df, footprints, G, pair_log, locals>>

NextPipeline ==
    \/ ExtractAll
    \/ BuildStage
    \/ AnalyzeStage
    \/ AccessibilityStage
    \/ VisualizeStage

SpecPipeline == InitPipeline /\ [][NextPipeline]_vars

-----------------------------------------------------------------------------
(* The point distances on their own *)

\* points around a latitude: on it, and one and two steps beyond it
PointsBeyond(lat, sign) == {<<lon, lat + sign * k>> : lon \in {0, 1}, k \in {0, 1, 2}}

\* the point pairs measured: two sites, or two points at and beyond 90
\* degrees north, or at and beyond 90 degrees south
PointPairs ==
    (Sites \X Sites)
    \cup (PointsBeyond(MaxLatitude, 1) \X PointsBeyond(MaxLatitude, 1))
    \cup (PointsBeyond(-MaxLatitude, -1) \X PointsBeyond(-MaxLatitude, -1))

InitDistance ==
    /\ buildings_df = <<>>
    /\ footprints = get_footprints(buildings_df, {})
    /\ pc = "input"
    /\ G = EmptyGraph
    /\ pair_log = NoLog
    /\ call = "none"
    /\ args = <<>>
    /\ ret = <<>>
    /\ NoPipeline

\* a call haversine_distance(point1, point2)
HaversineDistance ==
    /\ pc = "input"
    /\ \E pair \in PointPairs :
          /\ call' = "haversine_distance"
          /\ args' = [point1 |-> pair[1], point2 |-> pair[2]]
          /\ ret' = [raised |-> FALSE, value |-> haversine_distance(pair[1], pair[2])]
    /\ UNCHANGED <<files, locals, invoked, buildings_df, footprints, pc, G, pair_log>>

\* a call _simple_haversine(lat1, lon1, lat2, lon2)
SimpleHaversine ==
    /\ pc = "input"
    /\ \E pair \in PointPairs :
          /\ call' = "_simple_haversine"
          /\ args' = [lat1 |-> pair[1][2], lon1 |-> pair[1][1],
                      lat2 |-> pair[2][2], lon2 |-> pair[2][1]]
          /\ ret' = [raised |-> FALSE,
                     value |-> simple_haversine(pair[1][2], pair[1][1], pair[2][2], pair[2][1])]
    /\ UNCHANGED <<files, locals, invoked, buildings_df, footprints, pc, G, pair_log>>

NextDistance == HaversineDistance \/ SimpleHaversine

SpecDistance == InitDistance /\ [][NextDistance]_vars

-----------------------------------------------------------------------------
(* Properties of the graph builders (under Spec) *)

\* C1: for a table of distinct building ids and a threshold T > 0, the graph
\* returned by build_distance_graph has an edge between two buildings if and
\* only if the distance computed for the pair is <= T, a pair at exactly T
\* included, and the edge carries that distance as weight and as distance_m.
C1_EdgeIffWithinThreshold ==
    (/\ call = "build_distance_graph"
     /\ pc = "graph"
     /\ args.distance_threshold > 0
     /\ Cardinality(IdsOf(buildings_df)) = Len(buildings_df))
    => \A i, j \in 1..Len(buildings_df) :
          i < j =>
            LET u == buildings_df[i].building_id
                v == buildings_df[j].building_id
                d == pair_log[<<i, j>>].distance
            IN  /\ has_edge(G, u, v) <=> d <= args.distance_threshold
                /\ has_edge(G, u, v) =>
                      /\ G.edges[{u, v}].weight = d
                      /\ G.edges[{u, v}].distance_m = d

\* C1 happens: distinct ids, one pair at exactly T that is connected and one
\* pair beyond T that is not
C1_Witness ==
    /\ call = "build_distance_graph"
    /\ pc = "graph"
    /\ Cardinality(IdsOf(buildings_df)) = Len(buildings_df)
    /\ \E p \in DOMAIN pair_log :
          /\ pair_log[p].distance = args.distance_threshold
          /\ has_edge(G, buildings_df[p[1]].building_id, buildings_df[p[2]].building_id)
    /\ \E p \in DOMAIN pair_log :
          /\ pair_log[p].distance > args.distance_threshold
          /\ ~has_edge(G, buildings_df[p[1]].building_id, buildings_df[p[2]].building_id)

\* C2: the graph a builder returns has exactly one node per input record: its
\* node set is the set of the records' ids and its node count is the number
\* of rows.
C2_OneNodePerRecord ==
    pc = "graph" =>
        /\ NodeSet(G) = IdsOf(buildings_df)
        /\ number_of_nodes(G) = Len(buildings_df)

\* C3: the graph a builder returns is simple: no self-loop, one edge per
\* unordered node pair, and no negative weight.
C3_SimpleGraph ==
    pc = "graph" =>
        \A e \in DOMAIN G.edges :
            /\ Cardinality(e) = 2
            /\ e \subseteq NodeSet(G)
            /\ G.edges[e].weight >= 0

\* C4: in build_distance_graph the distance of a pair is the polygon
\* edge-to-edge distance if and only if use_edge_distance is set and both
\* buildings are in the footprint map; otherwise it is the distance of the
\* two centroids under the selected point metric (the centroid of a building
\* being that of the record found under its id); the call raises for no
\* table that has a row, whatever footprints are missing.
C4_EdgeDistanceIffBothFootprints ==
    call = "build_distance_graph" =>
        /\ \A p \in DOMAIN pair_log :
              LET id1 == buildings_df[p[1]].building_id
                  id2 == buildings_df[p[2]].building_id
                  both == id1 \in DOMAIN footprints /\ id2 \in DOMAIN footprints
                  point1 == Centroid(RowOfId(buildings_df, id1))
                  point2 == Centroid(RowOfId(buildings_df, id2))
              IN  /\ pair_log[p].branch = "edge_to_edge"
                        <=> (args.use_edge_distance /\ both)
                  /\ pair_log[p].distance =
                        IF args.use_edge_distance /\ both
                        THEN edge_to_edge_distance(footprints[id1], footprints[id2])
                        ELSE IF args.distance_method = "haversine"
                             THEN haversine_distance(point1, point2)
                             ELSE euclidean_distance(point1, point2)
        /\ ret.raised => Len(buildings_df) = 0

\* C4 happens: with use_edge_distance set, one pair of buildings that both
\* have a footprint and one pair where a footprint is missing, the polygon
\* distance differing from the centroid distance, and the graph returned
C4_Witness ==
    /\ call = "build_distance_graph"
    /\ pc = "graph"
    /\ args.use_edge_distance
    /\ Cardinality(IdsOf(buildings_df)) = Len(buildings_df)
    /\ \E p \in DOMAIN pair_log :
          /\ pair_log[p].branch = "edge_to_edge"
          /\ pair_log[p].distance #
                haversine_distance(Centroid(buildings_df[p[1]]), Centroid(buildings_df[p[2]]))
    /\ \E p \in DOMAIN pair_log :
          /\ pair_log[p].branch # "edge_to_edge"
          /\ ~(buildings_df[p[1]].building_id \in DOMAIN footprints
               /\ buildings_df[p[2]].building_id \in DOMAIN footprints)

-----------------------------------------------------------------------------
(* Properties of the consumers of the graph (under SpecAnalysis) *)

\* C5: for every node whose connected component has at least two nodes, on
\* connected and disconnected graphs alike, calculate_average_path_distance
\* returns the mean of the weighted shortest-path distances from the node to
\* the other nodes of its own component.
C5_MeanOverOwnComponent ==
    call = "calculate_average_path_distance" =>
        \A v \in NodeSet(G) :
            LET others == Component(G, v) \ {v}
                d == Distances(G, v)
            IN  others # {} =>
                    RatEq(ret.value[v],
                          Rat(SumOver(d, others), Cardinality(others) * UnitsPerMetre))

\* C6: for every node without reachable peer, the only node of a one-node
\* graph included, avg_path_distance_m of the accessibility table is missing
\* (NaN), never 0 and never an infinity.
C6_NoPeerIsMissing ==
    call = "calculate_accessibility" =>
        \A i \in 1..Len(ret.value) :
            LET id == ret.value[i].building_id
            IN  (id \in NodeSet(G) /\ Component(G, id) = {id}) =>
                    ret.value[i].avg_path_distance_m = NaN

\* C7: calculate_network_statistics raises for no graph, the empty graph and
\* the one-node graph included.
C7_StatisticsNeverRaises ==
    call = "calculate_network_statistics" => ~ret.raised

\* C8: in the centrality table degree_centrality is degree / (N-1) for every
\* node when N > 1, and 0 for the node of a one-node graph.
C8_DegreeCentrality ==
    (call = "calculate_centrality_metrics" /\ ~ret.raised) =>
        \A i \in 1..Len(ret.value) :
            LET N == number_of_nodes(G)
                r == ret.value[i]
            IN  IF N > 1 THEN RatEq(r.degree_centrality, Rat(r.degree, N - 1))
                ELSE RatEq(r.degree_centrality, Rat(0, 1))

\* C9: for a graph produced by a builder, every degree_centrality,
\* betweenness_centrality, closeness_centrality and pagerank of the table
\* returned by calculate_centrality_metrics lies in [0,1], and degree is an
\* integer >= 0.
C9_CentralitiesInUnitInterval ==
    (call = "calculate_centrality_metrics" /\ ~ret.raised) =>
        \A i \in 1..Len(ret.value) :
            LET r == ret.value[i]
                InUnit(x) == RatLeq(Rat(0, 1), x) /\ RatLeq(x, Rat(1, 1))
            IN  /\ r.degree \in Nat
                /\ InUnit(r.degree_centrality)
                /\ InUnit(r.betweenness_centrality)
                /\ InUnit(r.closeness_centrality)
                /\ InUnit(r.pagerank)

\* C10: calculate_centrality_metrics returns one record per graph node, and a
\* failure inside any of the four metric computations (degree, betweenness,
\* closeness, PageRank) does not propagate: the failed metric takes its
\* fallback (0 for every node, 1/N for PageRank) and the other metrics keep
\* the values computed for them.
C10_MetricFailureContained ==
    call = "calculate_centrality_metrics" =>
        /\ ~ret.raised
        /\ Len(ret.value) = number_of_nodes(G)
        /\ \A i \in 1..Len(ret.value) :
              LET r == ret.value[i]
                  v == G.nodes[i]
                  nx == LibraryResults(G)
              IN  /\ r.building_id = v
                  /\ r.degree_centrality =
                        IF "degree" \in ret.failed THEN Rat(0, 1) ELSE nx.degree[v]
                  /\ r.betweenness_centrality =
                        IF "betweenness" \in ret.failed THEN Rat(0, 1) ELSE nx.betweenness[v]
                  /\ r.closeness_centrality =
                        IF "closeness" \in ret.failed THEN Rat(0, 1) ELSE nx.closeness[v]
                  /\ r.pagerank =
                        IF "pagerank" \in ret.failed THEN Rat(1, number_of_nodes(G))
                        ELSE nx.pagerank[v]

\* C11 (as stated): on a disconnected graph calculate_centrality_metrics does
\* not raise and the closeness of every node is (|C|-1) over the sum of the
\* shortest-path distances to the other nodes of its component C when
\* |C| > 1, and 0 for a single-node component.
C11_ClosenessPerComponent ==
    (/\ call = "calculate_centrality_metrics"
     /\ ret.failed = {}
     /\ number_of_nodes(G) > 0
     /\ ~is_connected(G))
    => /\ ~ret.raised
       /\ \A i \in 1..Len(ret.value) :
             LET v == ret.value[i].building_id
                 others == Component(G, v) \ {v}
                 total == SumOver(Distances(G, v), others)
             IN  IF others = {} THEN RatEq(ret.value[i].closeness_centrality, Rat(0, 1))
                 ELSE RatEq(ret.value[i].closeness_centrality,
                            Rat(Cardinality(others) * UnitsPerMetre, total))

\* C11 (amended): the same, the quotient being taken when the sum of the
\* distances is positive; a node whose component peers are all at distance 0
\* has closeness 0.
C11_ClosenessPerComponentPositiveSum ==
    (/\ call = "calculate_centrality_metrics"
     /\ ret.failed = {}
     /\ number_of_nodes(G) > 0
     /\ ~is_connected(G))
    => /\ ~ret.raised
       /\ \A i \in 1..Len(ret.value) :
             LET v == ret.value[i].building_id
                 others == Component(G, v) \ {v}
                 total == SumOver(Distances(G, v), others)
             IN  IF others = {} \/ total = 0
                 THEN RatEq(ret.value[i].closeness_centrality, Rat(0, 1))
                 ELSE RatEq(ret.value[i].closeness_centrality,
                            Rat(Cardinality(others) * UnitsPerMetre, total))

\* C11 happens: a disconnected graph with an isolated node and a component of
\* two nodes at a positive distance, the centrality pass done without failure
C11_Witness ==
    /\ call = "calculate_centrality_metrics"
    /\ ret.failed = {}
    /\ ~ret.raised
    /\ number_of_nodes(G) > 0
    /\ ~is_connected(G)
    /\ \E v \in NodeSet(G) : Component(G, v) = {v}
    /\ \E i \in 1..Len(ret.value) :
          /\ Cardinality(Component(G, ret.value[i].building_id)) > 1
          /\ RatLeq(Rat(1, 1000), ret.value[i].closeness_centrality)

\* C12: for every graph with nodes, the pagerank values of the records
\* returned by calculate_centrality_metrics sum to 1, when the PageRank
\* computation succeeds and when it fails and 1/N is used: the values have
\* one denominator D and their numerators sum to D.
C12_PageRankSumsToOne ==
    (/\ call = "calculate_centrality_metrics"
     /\ ~ret.raised
     /\ number_of_nodes(G) > 0)
    => LET rows == 1..Len(ret.value)
           D == ret.value[1].pagerank[2]
       IN  /\ D > 0
           /\ \A i \in rows : ret.value[i].pagerank[2] = D
           /\ \A i \in rows : ret.value[i].pagerank[1] >= 0
           /\ SumOver([i \in rows |-> ret.value[i].pagerank[1]], rows) = D

\* C12 happens: PageRank computed on a graph with an edge of positive weight
\* and a node without weight to pass on
C12_Witness ==
    /\ call = "calculate_centrality_metrics"
    /\ ~ret.raised
    /\ "pagerank" \notin ret.failed
    /\ \E v \in NodeSet(G) : RowSum(G, v) = 0
    /\ \E v \in NodeSet(G) : RowSum(G, v) > 0
    /\ \E i, j \in 1..Len(ret.value) : ret.value[i].pagerank # ret.value[j].pagerank

-----------------------------------------------------------------------------
(* Properties of the accessibility metrics (under SpecAccessibility) *)

\* C13: calculate_distance_accessibility gives each building the number of
\* the other buildings whose centroid distance is <= R, and the relation is
\* symmetric: B is counted for A if and only if A is counted for B.
C13_DistanceCountSymmetric ==
    call = "calculate_distance_accessibility" =>
        LET rows == 1..Len(buildings_df)
            R == args.distance_threshold
            Counted(i, j) ==
                /\ i # j
                /\ haversine_distance(Centroid(buildings_df[i]), Centroid(buildings_df[j])) <= R
        IN  /\ \A i \in rows :
                  /\ buildings_df[i].building_id \in DOMAIN ret.value
                  /\ ret.value[buildings_df[i].building_id] =
                        Cardinality({j \in rows : Counted(i, j)})
            /\ \A i, j \in rows : Counted(i, j) <=> Counted(j, i)

\* C14: for every node v of the graph, calculate_network_accessibility
\* returns the number of nodes u # v joined to v by a path of total weight
\* <= R; an isolated node gets 0.
C14_NetworkReach ==
    call = "calculate_network_accessibility" =>
        LET R == args.distance_threshold
            paths == SimplePaths(G)
            Within(v, u) == \E p \in paths :
                               /\ p[1] = v
                               /\ p[Len(p)] = u
                               /\ PathWeight(G, p) <= R
        IN  /\ DOMAIN ret.value = NodeSet(G)
            /\ \A v \in NodeSet(G) :
                  /\ ret.value[v] = Cardinality({u \in NodeSet(G) \ {v} : Within(v, u)})
                  /\ Neighbors(G, v) \subseteq {v} => ret.value[v] = 0

\* C14 happens: a node reached over two edges at a network distance of
\* exactly R is counted
C14_Witness ==
    /\ call = "calculate_network_accessibility"
    /\ \E v, u \in NodeSet(G) :
          /\ v # u
          /\ ~has_edge(G, v, u)
          /\ Distances(G, v)[u] = args.distance_threshold
          /\ ret.value[v] >= 2

\* C15: calculate_weighted_accessibility returns for every building
\* distance_count * (1 + normalized_area), normalized_area being
\* (area - min_area) / (max_area - min_area) over the batch; when all areas
\* are equal, a batch of one building included, the result is
\* distance_count * 2.
C15_WeightedAccessibility ==
    call = "calculate_weighted_accessibility" =>
        LET rows == 1..Len(buildings_df)
            counts == calculate_distance_accessibility(buildings_df, args.distance_threshold)
        IN  /\ DOMAIN ret.value = rows
            /\ \A i \in rows :
                  LET distance_count == counts[buildings_df[i].building_id]
                      area == buildings_df[i].area_m2
                  IN  \E min_area, max_area \in {buildings_df[k].area_m2 : k \in rows} :
                         /\ \A k \in rows : /\ min_area <= buildings_df[k].area_m2
                                            /\ buildings_df[k].area_m2 <= max_area
                         /\ IF max_area = min_area
                            THEN RatEq(ret.value[i], Rat(distance_count * 2, 1))
                            ELSE RatEq(ret.value[i],
                                       RatAdd(Rat(distance_count, 1),
                                              Rat(distance_count * (area - min_area),
                                                  max_area - min_area)))

\* C15 happens: a batch of different areas where a building with neighbours
\* and an area between the smallest and the largest gets more than its count
\* and less than twice its count
C15_Witness ==
    /\ call = "calculate_weighted_accessibility"
    /\ Cardinality(IdsOf(buildings_df)) = Len(buildings_df)
    /\ \E i \in 1..Len(buildings_df) :
          LET distance_count ==
                  calculate_distance_accessibility(buildings_df, args.distance_threshold)
                      [buildings_df[i].building_id]
          IN  /\ distance_count > 0
              /\ RatLeq(Rat(distance_count, 1), ret.value[i])
              /\ ~RatLeq(ret.value[i], Rat(distance_count, 1))
              /\ RatLeq(ret.value[i], Rat(2 * distance_count, 1))
              /\ ~RatLeq(Rat(2 * distance_count, 1), ret.value[i])

\* C16: the table of calculate_accessibility has exactly one row per row of
\* the building table, whatever the graph: a building without neighbour or
\* one that is not a node of the graph still appears, its network count being
\* 0 where none was computed and its avg_path_distance_m missing where it is
\* undefined (the building is no node, or a node without reachable peer).
C16_OneRowPerBuilding ==
    call = "calculate_accessibility" =>
        /\ Len(ret.value) = Len(args.buildings_df)
        /\ \A i \in 1..Len(ret.value) :
              LET id == args.buildings_df[i].building_id
                  r == ret.value[i]
              IN  /\ r.building_id = id
                  /\ r.distance_count \in Nat
                  /\ r.network_reachable_count \in Nat
                  /\ id \notin NodeSet(G) =>
                        /\ r.network_reachable_count = 0
                        /\ r.avg_path_distance_m = NaN
                  /\ (id \in NodeSet(G) /\ Component(G, id) = {id}) =>
                        /\ r.network_reachable_count = 0
                        /\ r.avg_path_distance_m = NaN

-----------------------------------------------------------------------------
(* The scenario of four buildings (under SpecScenario) *)

\* C17 (as stated): for the four buildings in the order given and a
\* threshold of 200 m, the threshold graph connects the first three pairwise
\* and isolates the fourth, num_connected_components is 2, and the fourth
\* building has network_reachable_count 0 and a missing avg_path_distance_m.
C17_ScenarioThreeConnected ==
    LET T == DefaultThresholdMetres * UnitsPerMetre
        g == build_distance_graph(ScenarioBuildings, <<>>, T, "haversine", FALSE)
    IN  /\ (/\ buildings_df = ScenarioBuildings
            /\ call = "build_distance_graph"
            /\ args.distance_threshold = T)
           => DOMAIN G.edges = {{1, 2}, {1, 3}, {2, 3}}
        /\ (/\ buildings_df = ScenarioBuildings
            /\ G = g
            /\ call = "calculate_network_statistics")
           => (~ret.raised /\ ret.value.num_connected_components = 2)
        /\ (/\ buildings_df = ScenarioBuildings
            /\ G = g
            /\ call = "calculate_accessibility"
            /\ args.buildings_df = buildings_df)
           => /\ ret.value[4].network_reachable_count = 0
              /\ ret.value[4].avg_path_distance_m = NaN

\* C17 (amended): at 200 m the threshold graph connects only the first two
\* buildings, 111 m apart; the third, 222 m and 248 m from them, and the
\* fourth are isolated, num_connected_components is 3, and the fourth
\* building has network_reachable_count 0 and a missing avg_path_distance_m.
C17_ScenarioTwoConnected ==
    LET T == DefaultThresholdMetres * UnitsPerMetre
        g == build_distance_graph(ScenarioBuildings, <<>>, T, "haversine", FALSE)
    IN  /\ (/\ buildings_df = ScenarioBuildings
            /\ call = "build_distance_graph"
            /\ args.distance_threshold = T)
           => /\ NodeSet(G) = {1, 2, 3, 4}
              /\ DOMAIN G.edges = {{1, 2}}
              /\ pair_log[<<1, 3>>].distance > T
              /\ pair_log[<<2, 3>>].distance > T
        /\ (/\ buildings_df = ScenarioBuildings
            /\ G = g
            /\ call = "calculate_network_statistics")
           => (~ret.raised /\ ret.value.num_connected_components = 3)
        /\ (/\ buildings_df = ScenarioBuildings
            /\ G = g
            /\ call = "calculate_accessibility"
            /\ args.buildings_df = buildings_df)
           => /\ ret.value[4].network_reachable_count = 0
              /\ ret.value[4].avg_path_distance_m = NaN

\* C17 happens: the accessibility table of the four buildings in the order
\* given, computed on their graph at 200 m
C17_Witness ==
    /\ buildings_df = ScenarioBuildings
    /\ G = build_distance_graph(ScenarioBuildings, <<>>,
                                DefaultThresholdMetres * UnitsPerMetre, "haversine", FALSE)
    /\ call = "calculate_accessibility"
    /\ args.buildings_df = buildings_df
    /\ Len(ret.value) = 4
    /\ ret.value[1].network_reachable_count = 1

-----------------------------------------------------------------------------
(* Further properties of the consumers of the graph (under SpecAnalysis) *)

\* C18: the average_shortest_path_length statistic is a number exactly when
\* the graph is connected (every two nodes joined by a path) and None for
\* every disconnected graph.
C18_PathLengthOnlyWhenConnected ==
    (call = "calculate_network_statistics" /\ ~ret.raised) =>
        LET connected == \A u, v \in NodeSet(G) : v \in Component(G, u)
            aspl == ret.value.average_shortest_path_length
        IN  /\ ret.value.is_connected = connected
            /\ IsNumber(aspl) <=> connected
            /\ connected => RatLeq(Rat(0, 1), aspl)
            /\ ~connected => aspl = None

\* C18 happens: the statistics of a disconnected graph that has an edge, the
\* average shortest path length being None
C18_Witness ==
    /\ call = "calculate_network_statistics"
    /\ ~ret.raised
    /\ number_of_edges(G) > 0
    /\ \E u, v \in NodeSet(G) : v \notin Component(G, u)
    /\ ret.value.average_shortest_path_length = None

\* C19: calculate_shortest_paths reports total_pairs = N(N-1)/2; when
\* total_pairs exceeds max_paths it evaluates exactly max_paths distinct
\* unordered pairs, otherwise every pair; calculated_pairs is the number of
\* evaluated pairs joined by a path and the number of entries of `paths` and
\* of `path_lengths`.
C19_ShortestPathSample ==
    call = "calculate_shortest_paths" =>
        LET N == number_of_nodes(G)
            all == {P \in SUBSET NodeSet(G) : Cardinality(P) = 2}
            evaluated == {{p[1], p[2]} : p \in ret.evaluated}
            joined == {p \in ret.evaluated : p[2] \in Component(G, p[1])}
        IN  /\ 2 * ret.value.total_pairs = N * (N - 1)
            /\ Cardinality(all) = ret.value.total_pairs
            /\ evaluated \subseteq all
            /\ Cardinality(evaluated) = Cardinality(ret.evaluated)
            /\ IF ret.value.total_pairs > args.max_paths
               THEN Cardinality(evaluated) = args.max_paths
               ELSE evaluated = all
            /\ ret.value.calculated_pairs = Cardinality(joined)
            /\ DOMAIN ret.value.paths = joined
            /\ DOMAIN ret.value.path_lengths = joined

\* C19 happens: three pairs under a cap of two, a sample of two pairs of
\* which one is joined by a path
C19_Witness ==
    /\ call = "calculate_shortest_paths"
    /\ ret.value.total_pairs > args.max_paths
    /\ args.max_paths = 2
    /\ Cardinality(ret.evaluated) = 2
    /\ ret.value.calculated_pairs = 1

\* C20: on a degenerate building table (zero rows, one row, or rows all
\* farther apart than T) the threshold strategy completes without raising:
\* build_distance_graph returns a graph with the input nodes and no edges, and
\* the statistics build_network computes of the returned graph do not raise.
C20_DegenerateTableCompletes ==
    LET df == buildings_df
        DegenerateAt(T) ==
            \/ Len(df) <= 1
            \/ \A i, j \in 1..Len(df) :
                  i < j => haversine_distance(Centroid(df[i]), Centroid(df[j])) > T
    IN  /\ (call = "build_distance_graph" /\ DegenerateAt(args.distance_threshold))
           => /\ ~ret.raised
              /\ NodeSet(G) = IdsOf(df)
              /\ number_of_edges(G) = 0
        /\ (/\ call = "calculate_network_statistics"
            /\ \E T \in Thresholds :
                  /\ DegenerateAt(T)
                  /\ G = build_distance_graph(df, footprints, T, "haversine", FALSE)
                  /\ ~DistanceGraphRaises(G))
           => ~ret.raised

\* C21: build_delaunay_graph never raises on degenerate input: for fewer than
\* three points, or for points all on one line, it returns a graph holding
\* every input node and no edge.
C21_DelaunayDegenerate ==
    LET df == buildings_df
        OnOneLine ==
            \A i, j, k \in 1..Len(df) :
                (df[j].centroid_lon - df[i].centroid_lon) * (df[k].centroid_lat - df[i].centroid_lat)
                = (df[j].centroid_lat - df[i].centroid_lat) * (df[k].centroid_lon - df[i].centroid_lon)
    IN  (call = "build_delaunay_graph" /\ (Len(df) < 3 \/ OnOneLine))
        => /\ ~ret.raised
           /\ pc = "graph"
           /\ NodeSet(G) = IdsOf(df)
           /\ number_of_edges(G) = 0

\* C21 happens: three buildings of distinct ids at three distinct sites of one
\* line, returned as three nodes without edges
C21_Witness ==
    /\ call = "build_delaunay_graph"
    /\ ~ret.raised
    /\ Len(buildings_df) = 3
    /\ Cardinality(IdsOf(buildings_df)) = 3
    /\ Cardinality({Centroid(buildings_df[i]) : i \in 1..3}) = 3
    /\ \A i \in 1..3 : buildings_df[i].centroid_lat = 0
    /\ number_of_nodes(G) = 3
    /\ number_of_edges(G) = 0

\* C22: the graph is read-only for its consumers: a call of
\* calculate_network_statistics, calculate_centrality_metrics,
\* calculate_shortest_paths, calculate_network_accessibility or
\* calculate_average_path_distance, after any others, leaves the node
\* list, the node attributes, the edge set and the edge weights as they were.
C22_GraphReadOnly ==
    [][call' \in {"calculate_network_statistics", "calculate_centrality_metrics",
                  "calculate_shortest_paths", "calculate_network_accessibility",
                  "calculate_average_path_distance"} =>
          /\ G'.nodes = G.nodes
          /\ G'.attrs = G.attrs
          /\ DOMAIN G'.edges = DOMAIN G.edges
          /\ \A e \in DOMAIN G.edges : G'.edges[e] = G.edges[e]]_vars

\* C22 happens: a consumer has returned and the caller goes on to the next
\* one, on a graph of two components that still has the nodes outside its
\* first component, and an edge
C22_Witness ==
    /\ call = "none"
    /\ pc = "graph"
    /\ number_of_edges(G) > 0
    /\ number_connected_components(G) = 2
    /\ NodeSet(G) = IdsOf(buildings_df)

\* C24: the point distance is symmetric and zero on identical points:
\* haversine_distance(a, b) = haversine_distance(b, a) and
\* haversine_distance(a, a) = 0, and the same for _simple_haversine.
C24_DistanceSymmetric ==
    /\ call = "haversine_distance" =>
          /\ ret.value = haversine_distance(args.point2, args.point1)
          /\ args.point1 = args.point2 => ret.value = 0
    /\ call = "_simple_haversine" =>
          /\ ret.value = simple_haversine(args.lat2, args.lon2, args.lat1, args.lon1)
          /\ (args.lat1 = args.lat2 /\ args.lon1 = args.lon2) => ret.value = 0

\* C24 happens: the spherical form has measured two points that differ in
\* both coordinates
C24_Witness ==
    /\ call = "_simple_haversine"
    /\ args.lat1 # args.lat2
    /\ args.lon1 # args.lon2
    /\ ret.value > 0

\* C25: haversine_distance never propagates a failure of the geodesic
\* routine: whenever the routine raises for a point pair, the value returned
\* is the spherical closed form _simple_haversine of the same pair.
C25_FallbackOnGeodesicFailure ==
    (/\ call = "haversine_distance"
     /\ (Abs(args.point1[2]) > MaxLatitude \/ Abs(args.point2[2]) > MaxLatitude))
    => /\ ~ret.raised
       /\ ret.value = simple_haversine(args.point1[2], args.point1[1],
                                       args.point2[2], args.point2[1])

\* C25 happens: geodesic has rejected the second point of a pair whose first
\* point lies on the 90th degree, and a distance came back
C25_Witness ==
    /\ call = "haversine_distance"
    /\ args.point1[2] = MaxLatitude
    /\ args.point2[2] > MaxLatitude
    /\ ~ret.raised
    /\ ret.value > 0

C30_ShortestPathEntries ==
    call = "calculate_shortest_paths" =>
        \A key \in DOMAIN ret.value.paths :
            LET path == ret.value.paths[key]
                length == ret.value.path_lengths[key]
                a == key[1]
                b == key[2]
            IN  /\ Len(path) >= 1
                /\ path[1] = a
                /\ path[Len(path)] = b
                /\ \A i \in 1..(Len(path) - 1) : has_edge(G, path[i], path[i + 1])
                /\ length = SumSeq([i \in 1..(Len(path) - 1) |->
                                       G.edges[{path[i], path[i + 1]}].weight])
                /\ \A q \in SimplePaths(G) :
                      (q[1] = a /\ q[Len(q)] = b) =>
                          SumSeq([i \in 1..(Len(q) - 1) |->
                                     G.edges[{q[i], q[i + 1]}].weight]) >= length

\* C30 happens: an entry for two nodes that are not adjacent, whose path runs
\* over a third node and has a positive length
C30_Witness ==
    /\ call = "calculate_shortest_paths"
    /\ \E key \in DOMAIN ret.value.paths :
          /\ Len(ret.value.paths[key]) = 3
          /\ ~has_edge(G, key[1], key[2])
          /\ ret.value.path_lengths[key] > 0

\* C23: when a required input file is missing, the stage that needs it
\* (build_network for the building CSV, analyze_network for the graph file,
\* calculate_accessibility for the CSV or the graph file) raises a failure
\* naming the missing path, before it computes anything or writes any output
\* file.
C23_MissingInputRaisesFirst ==
    [][(/\ call' \in {"build_network", "analyze_network", "calculate_accessibility_stage"}
        /\ \E path \in InputPaths \ files :
              path \in (IF call' = "build_network" THEN {args'.input_csv_path}
                        ELSE IF call' = "analyze_network" THEN {args'.input_graph_path}
                        ELSE {args'.input_csv_path, args'.input_graph_path}))
       => /\ ret'.raised
          /\ ret'.error \in InputPaths \ files
          /\ \A i \in 1..Len(ret'.steps) : ret'.steps[i] \notin {"compute", "write"}
          /\ ret'.written = {}
          /\ files' = files]_vars

\* C23 happens: calculate_accessibility has found the table file, read it, and
\* raised for the graph file that is not there
C23_Witness ==
    /\ call = "calculate_accessibility_stage"
    /\ ret.raised
    /\ ret.error = "building_network_graph.pkl"
    /\ ret.steps = <<"read">>
    /\ "all_buildings.csv" \in files
    /\ "building_network_graph.pkl" \notin files

\* C26: after run_pipeline has extracted any set of GML files, the combined
\* building table handed to graph construction has no two rows with the same
\* building_id, also when buildings without a gml:id get the generated id
\* building_<index> in several files.
C26_CombinedTableIdsDistinct ==
    pc = "extracted" =>
        \A i, j \in 1..Len(buildings_df) :
            buildings_df[i].building_id = buildings_df[j].building_id => i = j

\* C27: in run_pipeline graph construction is invoked only if at least one
\* building was extracted, and analysis, accessibility scoring and
\* visualization are invoked only after graph construction has returned
\* without raising; when no file matches, no building is extracted or graph
\* construction raises, none of the later stages runs.
C27_LaterStagesOnlyAfterGraph ==
    LET later == {"analyze_network", "calculate_accessibility", "visualize_network"}
        built(i) == invoked[i].stage = "build_network"
        no_later == \A i \in 1..Len(invoked) : invoked[i].stage \notin later
    IN  /\ \A i \in 1..Len(invoked) :
              built(i) => AllBuildings(locals.gml_files, 1) # <<>>
        /\ \A i \in 1..Len(invoked) :
              invoked[i].stage \in later
                  => \E j \in 1..(i - 1) : built(j) /\ ~invoked[j].raised
        /\ (\/ locals.gml_files = <<>>
            \/ AllBuildings(locals.gml_files, 1) = <<>>
            \/ \E j \in 1..Len(invoked) : built(j) /\ invoked[j].raised)
           => /\ no_later
              /\ ~ENABLED AnalyzeStage
              /\ ~ENABLED AccessibilityStage
              /\ ~ENABLED VisualizeStage

C27_Witness ==
    /\ pc = "stopped"
    /\ invoked # <<>>
    /\ invoked[Len(invoked)] = [stage |-> "build_network", raised |-> TRUE]
    /\ buildings_df # <<>>

\* C28: once graph construction has succeeded, analysis, accessibility
\* scoring and visualization are each invoked exactly once and in that order
\* whatever the earlier ones did: a failed analysis does not prevent
\* accessibility scoring, a failure of either does not prevent visualization,
\* and visualization gets None in place of the outputs of a failed stage.
C28_LaterStagesEachOnceInOrder ==
    LET order == <<"analyze_network", "calculate_accessibility", "visualize_network">>
        n == Len(invoked)
        b == CHOOSE j \in 1..n : invoked[j].stage = "build_network"
        after == [i \in 1..(n - b) |-> invoked[b + i].stage]
        raised(stage) == \E i \in 1..n : invoked[i].stage = stage /\ invoked[i].raised
    IN  (\E j \in 1..n : invoked[j].stage = "build_network" /\ ~invoked[j].raised)
        => /\ Len(after) <= 3
           /\ after = SubSeq(order, 1, Len(after))
           /\ Len(after) = 0 => ENABLED AnalyzeStage
           /\ Len(after) = 1 => ENABLED AccessibilityStage
           /\ Len(after) = 2 => ENABLED VisualizeStage
           /\ Len(after) = 3 <=> pc = "done"
           /\ call = "visualize_network"
              => /\ (args.metrics_csv_path = PyNone) = raised("analyze_network")
                 /\ (args.paths_json_path = PyNone) = raised("analyze_network")
                 /\ (args.accessibility_csv_path = PyNone)
                        = raised("calculate_accessibility")
                 /\ raised("analyze_network")
                    \/ /\ args.metrics_csv_path = "network_metrics.csv"
                       /\ args.paths_json_path = "network_paths.json"
                 /\ raised("calculate_accessibility")
                    \/ args.accessibility_csv_path = "accessibility_metrics.csv"

C28_Witness ==
    /\ pc = "done"
    /\ call = "visualize_network"
    /\ args.metrics_csv_path = PyNone
    /\ args.accessibility_csv_path = "accessibility_metrics.csv"
    /\ \E i \in 1..Len(invoked) :
          invoked[i] = [stage |-> "analyze_network", raised |-> TRUE]
    /\ \E i \in 1..Len(invoked) :
          invoked[i] = [stage |-> "calculate_accessibility", raised |-> FALSE]

====
